---- MODULE Spec2Model ----
(***************************************************************************)
(* Boolean path operations of paper.js (src/src/path/PathItem.Boolean.js,  *)
(* lines 1130-2126, with CurveLocation.js) as a state machine.             *)
(*                                                                         *)
(* Geometry.  Paths are polygons whose curves are straight, axis-parallel  *)
(* lines without handles.  All vertex coordinates are multiples of 4 model *)
(* units, so every chain mid-point sampled by propagateWinding is an even  *)
(* integer and every abscissa compared with the band [pa-eps, pa+eps]      *)
(* differs from pa by 0 or by at least 2.  On such curves                  *)
(* Curve.getMonoCurves returns the curve itself and the root that          *)
(* Curve.solveCubic finds has the abscissa of both end points.             *)
(*                                                                         *)
(* The heap.  Segments, paths, curve locations and items are records in    *)
(* the sequences segs, pths, locs and items; an object's identity is its   *)
(* index, 0 is null/undefined.                                             *)
(***************************************************************************)
EXTENDS Integers, Sequences, FiniteSets, TLC

VARIABLES
    segs,   \* Segment objects:  [pt, path, inter, winding, contour, visited]
    pths,   \* Path objects:     [segs, closed, item, overlapsOnly, validOverlapsOnly]
    locs,   \* CurveLocations:   [path, curve, tn, td, pt, seg, inter, overlap, next, prev]
    items,  \* PathItems:        [compound, children, fillRule]
    pc,     \* position in the running operation
    fr,     \* local variables of the running operation
    hist,   \* the finished calls: [op, p1, p2, res, val, threw]
    snap,   \* the operands' value when the running call began
    threw,  \* a TypeError was raised
    tool    \* the Tool object and the events its last _handleEvent emitted

vars == <<segs, pths, locs, items, pc, fr, hist, snap, threw, tool>>

----------------------------------------------------------------------------
(* Bounds of the model *)

\* Number of calls made one after the other on the same operands.
MaxCalls == 2

\* Number of CurveLocation constructions in SpecLoc.
MaxLocs == 4

\* Number of intersections, each a pair of locations, in SpecLink.
MaxPairs == 2

----------------------------------------------------------------------------
(* Program constants, in model units *)

\* Numerical.WINDING_EPSILON: smaller than the distance of any two distinct
\* abscissas of the model (which is at least 2).
WINDING_EPSILON == 1

\* Numerical.GEOMETRIC_EPSILON as an area, in square model units: the 4 x 4
\* squares of the catalog are below it, the 12 x 12 square is above.
GEOMETRIC_EPSILON == 100

\* 1 / Numerical.CURVETIME_EPSILON.
CURVETIME_INV == 100000000

----------------------------------------------------------------------------
(* Sequences *)

Range(s) == {s[i] : i \in 1..Len(s)}

IndexOf(s, x) == CHOOSE i \in 1..Len(s) : s[i] = x

Has(s, x) == \E i \in 1..Len(s) : s[i] = x

RECURSIVE Flatten(_)
Flatten(ss) == IF ss = <<>> THEN <<>> ELSE Head(ss) \o Flatten(Tail(ss))

Reverse(s) == [i \in 1..Len(s) |-> s[Len(s) + 1 - i]]

InsertAt(s, i, x) == SubSeq(s, 1, i) \o <<x>> \o SubSeq(s, i + 1, Len(s))

Abs(n) == IF n < 0 THEN -n ELSE n

Max(a, b) == IF a >= b THEN a ELSE b

Min(a, b) == IF a <= b THEN a ELSE b

----------------------------------------------------------------------------
(* Segments, curves and paths of the heap.  The operators take the heap    *)
(* as arguments so that an action can apply them to intermediate values.   *)

NewSeg(pt, path) ==
    [pt |-> pt, path |-> path, inter |-> 0, winding |-> -1, contour |-> -1,
     visited |-> FALSE]

\* Segment#getNext(): the following segment, wrapping on a closed path.
getNext(ph, sg, s) ==
    LET p == ph[sg[s].path]
        i == IndexOf(p.segs, s)
    IN  IF i < Len(p.segs) THEN p.segs[i + 1]
        ELSE IF p.closed THEN p.segs[1] ELSE 0

\* Segment#getPrevious().
getPrevious(ph, sg, s) ==
    LET p == ph[sg[s].path]
        i == IndexOf(p.segs, s)
    IN  IF i > 1 THEN p.segs[i - 1]
        ELSE IF p.closed THEN p.segs[Len(p.segs)] ELSE 0

\* Path#getCurves(): one curve per segment that has a next segment.  A curve
\* is [path, s1, s2, a, b]: its two segments and their points.
getCurves(ph, sg, p) ==
    LET ss == ph[p].segs
        n  == IF ph[p].closed THEN Len(ss) ELSE Len(ss) - 1
    IN  [i \in 1..(IF n < 0 THEN 0 ELSE n) |->
            LET s2 == IF i < Len(ss) THEN ss[i + 1] ELSE ss[1]
            IN  [path |-> p, s1 |-> ss[i], s2 |-> s2,
                 a |-> sg[ss[i]].pt, b |-> sg[s2].pt]]

\* PathItem#getCurves() of an item: the curves of all its paths.
itemCurves(ph, sg, it) ==
    Flatten([k \in 1..Len(it.children) |-> getCurves(ph, sg, it.children[k])])

\* Twice Path#getArea(): the sum of Curve.getArea over the segments, the last
\* one joined to the first by a straight line.
RECURSIVE Area2Pts(_, _)
Area2Pts(pts, i) ==
    IF i > Len(pts) THEN 0
    ELSE LET a == pts[i]
             b == pts[IF i < Len(pts) THEN i + 1 ELSE 1]
         IN  (a[1] * b[2] - b[1] * a[2]) + Area2Pts(pts, i + 1)

PathPts(ph, sg, p) == [i \in 1..Len(ph[p].segs) |-> sg[ph[p].segs[i]].pt]

Area2(ph, sg, p) == Area2Pts(PathPts(ph, sg, p), 1)

\* Path#isClockwise().
isClockwise(ph, sg, p) == Area2(ph, sg, p) >= 0

----------------------------------------------------------------------------
(* Ray casting: addWinding and getWinding.  coord is 0 for a ray along x    *)
(* (abscissa x, ordinate y) and 1 for a ray along y.  A point is <<x, y>>,  *)
(* so the abscissa of p is p[coord + 1] and its ordinate p[2 - coord].      *)

Absc(p, coord) == p[coord + 1]

Ordi(p, coord) == p[2 - coord]

\* The sign +1 for a piece whose ordinate grows.
PieceWindingRising(vo0, vo3) == IF vo0 < vo3 THEN 1 ELSE -1

\* The first control point of the values v, v[2] and v[3]: the start point
\* where the segment has no handle, as on the paths of this model, and the
\* point h1 of a piece that is given one.
Control1(v) == IF "h1" \in DOMAIN v THEN v.h1 ELSE v.a

\* The sign addWinding gives a piece with the ordinates vo0 and vo3.
PieceWinding(vo0, vo3) == IF vo0 > vo3 THEN 1 ELSE -1

\* addWinding(v, vPrev, px, py, windings, isOnCurve, coord).  acc holds
\* windings as acc.pw, isOnCurve[0] as acc.isOn and vPrev as acc.vPrev; the
\* result holds the returned curve as vPrev.  The handles are zero, so the
\* control points va1, va2 are the end points va0, va3.
addWinding(v, acc, pt, coord) ==
    LET epsilon == WINDING_EPSILON
        pa  == Absc(pt, coord)
        po  == Ordi(pt, coord)
        vo0 == Ordi(v.a, coord)
        vo3 == Ordi(v.b, coord)
        aBefore == pa - epsilon
        aAfter  == pa + epsilon
        va0 == Absc(v.a, coord)
        va1 == Absc(Control1(v), coord)
        va3 == Absc(v.b, coord)
        vPrev == acc.vPrev
        \* The root of solveCubic on a straight piece that is not parallel
        \* to the ray lies on the piece, whose abscissa is va0 = va3.
        a   == IF po = vo0 THEN va0
               ELSE IF po = vo3 THEN va3
               ELSE (va0 + va3) \div 2
        winding     == PieceWinding(vo0, vo3)
        prevWinding == PieceWinding(Ordi(vPrev.a, coord), Ordi(vPrev.b, coord))
        prevAEnd    == Absc(vPrev.b, coord)
        w0 == acc.pw[1]
        w1 == acc.pw[2]
    IN  IF (vo0 > po /\ vo3 > po) \/ (vo0 < po /\ vo3 < po)
        THEN [acc EXCEPT !.vPrev = v]
        ELSE IF vo0 = vo3
        THEN [acc EXCEPT !.isOn = @ \/ (va1 <= aAfter /\ va3 >= aBefore)
                                    \/ (va3 <= aAfter /\ va1 >= aBefore)]
        ELSE IF po # vo0
        THEN IF a < aBefore
             THEN [acc EXCEPT !.pw = <<w0 + winding, w1>>, !.vPrev = v]
             ELSE IF a > aAfter
             THEN [acc EXCEPT !.pw = <<w0, w1 + winding>>, !.vPrev = v]
             ELSE [acc EXCEPT !.pw = <<w0 + winding, w1 + winding>>,
                              !.isOn = TRUE, !.vPrev = v]
        ELSE IF winding # prevWinding
        THEN [acc EXCEPT !.pw = <<IF prevAEnd <= aAfter THEN w0 + winding ELSE w0,
                                  IF prevAEnd >= aBefore THEN w1 + winding ELSE w1>>,
                         !.vPrev = v]
        ELSE IF (prevAEnd < aBefore /\ a >= aBefore)
                \/ (prevAEnd > aAfter /\ a <= aAfter)
        THEN [acc EXCEPT !.isOn = TRUE,
                         !.pw = IF prevAEnd < aBefore THEN <<w0, w1 + winding>>
                                ELSE IF prevAEnd > aAfter THEN <<w0 + winding, w1>>
                                ELSE <<w0, w1>>,
                         !.vPrev = v]
        ELSE [acc EXCEPT !.vPrev = v]

\* The curves before curve i of its path, nearest first, as Curve#getPrevious
\* yields them until it is back at the curve (closed) or at null (open).
PreviousCurves(pcs, i, closed) ==
    IF closed
    THEN [k \in 1..(Len(pcs) - 1) |-> pcs[((i - 1 - k + Len(pcs)) % Len(pcs)) + 1]]
    ELSE [k \in 1..(i - 1) |-> pcs[i - k]]

\* getWinding, lines 1507-1521: the first of the curves `prv` that is not
\* parallel to the ray, or the curve itself.
FirstNotParallel(prv, curve, coord) ==
    LET ok == {k \in 1..Len(prv) : Ordi(prv[k].a, coord) # Ordi(prv[k].b, coord)}
    IN  IF ok = {} THEN curve
        ELSE prv[CHOOSE k \in ok : \A m \in ok : k <= m]

PreviousOf(pcs, curve, closed) ==
    PreviousCurves(pcs, CHOOSE k \in 1..Len(pcs) : pcs[k].s1 = curve.s1, closed)

LastNonHorizontal(ph, sg, curve, coord) ==
    FirstNotParallel(PreviousOf(getCurves(ph, sg, curve.path), curve,
                                ph[curve.path].closed),
                     curve, coord)

\* A mapping by parity alone: an even sum counts as no winding.
MapWindingParity(w) == Abs(w) % 2

\* The mapping of a raw winding sum, lines 1565-1566.
MapWinding(w) == IF w = 0 THEN 0 ELSE 2 - (Abs(w) % 2)

\* Lines 1507-1521: on a new path vPrev is looked up.
StartOfPath(ph, sg, cs, i, coord, acc) ==
    IF i = 1 \/ cs[i - 1].path # cs[i].path
    THEN [acc EXCEPT !.vPrev = LastNonHorizontal(ph, sg, cs[i], coord)]
    ELSE acc

\* Lines 1522-1546: only a curve that can cross the ordinate of the point is
\* handled; a straight curve is its only monotone piece.
AddCurve(curve, acc, pt, coord) ==
    IF /\ Ordi(curve.a, coord) >= Ordi(pt, coord) \/ Ordi(curve.b, coord) >= Ordi(pt, coord)
       /\ Ordi(curve.a, coord) <= Ordi(pt, coord) \/ Ordi(curve.b, coord) <= Ordi(pt, coord)
    THEN addWinding(curve, acc, pt, coord)
    ELSE acc

\* Lines 1547-1559: at the last curve of a path the windings of the path are
\* added to the total, or counted as an on-path winding.
EndOfPath(ph, sg, cs, i, acc) ==
    IF ~(i = Len(cs) \/ cs[i + 1].path # cs[i].path) THEN acc
    ELSE IF acc.pw = <<0, 0>> /\ acc.isOn
    THEN [acc EXCEPT !.onPath = @ + (IF isClockwise(ph, sg, cs[i].path)
                                     THEN 1 ELSE -1),
                     !.isOn = FALSE]
    ELSE [acc EXCEPT !.w = <<@[1] + acc.pw[1], @[2] + acc.pw[2]>>,
                     !.pw = <<0, 0>>, !.isOn = FALSE]

\* The loop over the curves, lines 1505-1560.
RECURSIVE WindLoop(_, _, _, _, _, _, _)
WindLoop(ph, sg, cs, i, pt, coord, acc) ==
    IF i > Len(cs) THEN acc
    ELSE WindLoop(ph, sg, cs, i + 1, pt, coord,
             EndOfPath(ph, sg, cs, i,
                 AddCurve(cs[i], StartOfPath(ph, sg, cs, i, coord, acc), pt, coord)))

\* Lines 1561-1564: the on-path windings are used if no others were found.
SumWindings(acc) ==
    IF acc.w = <<0, 0>> THEN <<acc.onPath, acc.onPath>> ELSE acc.w

\* A result whose contour flag compares the two mapped windings.
WindingResultDiffer(w) ==
    [winding |-> Max(MapWinding(w[1]), MapWinding(w[2])),
     contour |-> IF MapWinding(w[1]) # MapWinding(w[2]) THEN 1 ELSE 0]

\* Lines 1565-1574.
WindingResult(w) ==
    [winding |-> Max(MapWinding(w[1]), MapWinding(w[2])),
     contour |-> IF (MapWinding(w[1]) = 0) # (MapWinding(w[2]) = 0) THEN 1 ELSE 0]

\* getWinding(point, curves, horizontal): [winding, contour].
getWinding(ph, sg, pt, cs, horizontal) ==
    WindingResult(SumWindings(
        WindLoop(ph, sg, cs, 1, pt, IF horizontal THEN 1 ELSE 0,
                 [w |-> <<0, 0>>, pw |-> <<0, 0>>, onPath |-> 0,
                  isOn |-> FALSE, vPrev |-> 0])))

\* PathItem#_getWinding(point, horizontal).
ItemWinding(ph, sg, it, pt, horizontal) ==
    getWinding(ph, sg, pt, itemCurves(ph, sg, it), horizontal).winding

\* The fill rules: the winding is not zero (non-zero), or odd (even-odd).
Fills(fillRule, w) == IF fillRule = "evenodd" THEN w = 1 ELSE w # 0

\* PathItem#contains(point) of a filled item.
contains(ph, sg, it, pt) ==
    Fills(it.fillRule, ItemWinding(ph, sg, it, pt, FALSE))

----------------------------------------------------------------------------
(* The operands.  A shape is [pts, closed]; the receiver is the 12 x 12     *)
(* square, the argument a rectangle that lies beside it, inside it, around  *)
(* it or across one or two of its sides, or the same square again.  No      *)
(* vertex of one operand lies on a curve of the other except where both     *)
(* outlines are the same.                                                   *)

\* The rectangle with the corners <<x0, y0>> and <<x1, y1>>, clockwise (its
\* area is positive; the y axis points down).
RectPts(x0, y0, x1, y1) == <<<<x0, y0>>, <<x1, y0>>, <<x1, y1>>, <<x0, y1>>>>

Oriented(pts, cw) == IF cw THEN pts ELSE Reverse(pts)

ARect == RectPts(8, 8, 20, 20)

Spans == {<<0, 4>>, <<4, 12>>, <<12, 16>>, <<4, 24>>, <<12, 28>>}

BRects == {RectPts(xs[1], ys[1], xs[2], ys[2]) : xs \in Spans, ys \in Spans}
            \cup {ARect}

\* Open arguments and receivers: three sides of a rectangle.
OpenRects == {RectPts(0, 0, 4, 4), RectPts(4, 4, 12, 12), RectPts(24, 12, 28, 16)}

\* A closed path that crosses itself once, at <<12, 8>>.
SelfCrossing == <<<<4, 8>>, <<16, 8>>, <<16, 20>>, <<12, 20>>, <<12, 4>>, <<4, 4>>>>

Shape(pts, closed) == [pts |-> pts, closed |-> closed]

\* The pairs of operands of unite, intersect, subtract and exclude.
OperandPairs ==
    {<<Shape(Oriented(ARect, ca), TRUE), Shape(Oriented(b, cb), TRUE)>> :
        ca \in BOOLEAN, cb \in BOOLEAN, b \in BRects}
    \cup {<<Shape(ARect, TRUE), Shape(b, FALSE)>> : b \in OpenRects}
    \cup {<<Shape(ARect, FALSE), Shape(Oriented(b, cb), TRUE)>> :
            cb \in BOOLEAN, b \in {RectPts(4, 4, 12, 12), RectPts(4, 4, 24, 24)}}
    \cup {<<Shape(ARect, FALSE), Shape(b, FALSE)>> : b \in OpenRects}

\* The lists of children of the compound paths given to resolveCrossings.
ChildLists ==
    {<<Shape(Oriented(ARect, ca), TRUE), Shape(Oriented(b, cb), TRUE)>> :
        ca \in BOOLEAN, cb \in BOOLEAN,
        b \in {RectPts(xs[1], ys[1], xs[2], ys[2]) : xs \in Spans, ys \in Spans}}
    \cup {<<Shape(Oriented(RectPts(4, 4, 24, 24), c1), TRUE),
            Shape(Oriented(ARect, c2), TRUE),
            Shape(Oriented(RectPts(12, 12, 16, 16), c3), TRUE)>> :
            c1 \in BOOLEAN, c2 \in BOOLEAN, c3 \in BOOLEAN}
    \cup {<<Shape(Oriented(SelfCrossing, c1), TRUE)>> : c1 \in BOOLEAN}

\* A heap is [sg, ph, it]: segments, paths and items.
EmptyHeap == [sg |-> <<>>, ph |-> <<>>, it |-> <<>>]

\* new Path(segments) as a child of item `item`.
AddPath(h, pts, closed, item) ==
    LET p  == Len(h.ph) + 1
        n  == Len(h.sg)
    IN  [h EXCEPT
            !.sg = @ \o [i \in 1..Len(pts) |-> NewSeg(pts[i], p)],
            !.ph = Append(@, [segs |-> [i \in 1..Len(pts) |-> n + i],
                              closed |-> closed, item |-> item,
                              overlapsOnly |-> FALSE,
                              validOverlapsOnly |-> FALSE])]

RECURSIVE AddPaths(_, _, _)
AddPaths(h, shapes, item) ==
    IF shapes = <<>> THEN h
    ELSE AddPaths(AddPath(h, Head(shapes).pts, Head(shapes).closed, item),
                  Tail(shapes), item)

\* A new item whose children are the given shapes: a Path when compound is
\* FALSE (then there is one shape), else a CompoundPath.
AddItem(h, shapes, compound, fillRule) ==
    LET it == Len(h.it) + 1
        h1 == AddPaths(h, shapes, it)
    IN  [h1 EXCEPT !.it = Append(@,
            [compound |-> compound,
             children |-> [i \in 1..Len(shapes) |-> Len(h.ph) + i],
             fillRule |-> fillRule])]

\* The value of a path: its points, whether it is closed, and the fields the
\* boolean operations keep on its segments.
PathValue(ph, sg, p) ==
    [closed |-> ph[p].closed,
     segs   |-> [i \in 1..Len(ph[p].segs) |->
                    LET s == sg[ph[p].segs[i]]
                    IN  [pt |-> s.pt, inter |-> s.inter, winding |-> s.winding,
                         contour |-> s.contour, visited |-> s.visited]]]

\* The value of an item: the values of its paths.
ItemValue(ph, sg, its, it) ==
    IF it = 0 THEN <<>>
    ELSE [k \in 1..Len(its[it].children) |-> PathValue(ph, sg, its[it].children[k])]

----------------------------------------------------------------------------
(* Curve locations and the intersection finder *)

\* time < CURVETIME_EPSILON and time > 1 - CURVETIME_EPSILON for the time
\* tn / td (td > 0), without leaving the 32 bit integers.
TimeBelowMin(tn, td) == tn <= (td - 1) \div CURVETIME_INV

TimeAboveMax(tn, td) == td - tn <= (td - 1) \div CURVETIME_INV

\* parameter >= 1 - CURVETIME_EPSILON.
TimeAtEnd(tn, td) == td - tn <= td \div CURVETIME_INV

\* tn1 / td1 < tn2 / td2.
TimeLess(tn1, td1, tn2, td2) == tn1 * td2 < tn2 * td1

\* A constructor without line 68: the partner is not made to point back.
CurveLocationOneWay(ph, sg, lc, curve, tn, td, pt, overlap, inter) ==
    LET next == getNext(ph, sg, curve.s2)
        move == TimeAtEnd(tn, td) /\ next # 0
    IN  Append(lc, [path |-> curve.path,
                    curve |-> IF move THEN curve.s2 ELSE curve.s1,
                    tn |-> IF move THEN 0 ELSE tn,
                    td |-> td, pt |-> pt, seg |-> 0, inter |-> inter,
                    overlap |-> overlap, next |-> 0, prev |-> 0])

\* new CurveLocation(curve, parameter, point, _distance, _overlap,
\* _intersection): the location is appended to lc; a location at the end of
\* a curve moves to the start of the next curve, and the partner passed as
\* _intersection is made to point back at the new location.
CurveLocation(ph, sg, lc, curve, tn, td, pt, overlap, inter) ==
    LET next == getNext(ph, sg, curve.s2)
        move == TimeAtEnd(tn, td) /\ next # 0
        id   == Len(lc) + 1
        this == [path |-> curve.path,
                 curve |-> IF move THEN curve.s2 ELSE curve.s1,
                 tn |-> IF move THEN 0 ELSE tn,
                 td |-> td, pt |-> pt, seg |-> 0, inter |-> inter,
                 overlap |-> overlap, next |-> 0, prev |-> 0]
        lc1  == Append(lc, this)
    IN  IF inter # 0 THEN [lc1 EXCEPT ![inter].inter = id] ELSE lc1

\* The direction of a straight axis-parallel line from a to b as the angle of
\* its tangent in quarter turns: 0 along +x, 1 along +y, 2 along -x, -1 along -y.
Dir(a, b) ==
    IF b[1] > a[1] THEN 0 ELSE IF b[1] < a[1] THEN 2
    ELSE IF b[2] > a[2] THEN 1 ELSE -1

\* isInRange of CurveLocation#isCrossing, with PI = 2 quarter turns.
isInRange(angle, min, max) ==
    IF min < max THEN angle > min /\ angle < max
    ELSE (angle > min /\ angle <= 2) \/ (angle >= -2 /\ angle < max)

\* CurveLocation#isCrossing for the four tangent angles at the point: a1 back
\* along the first path, a2 forward along it, a3 and a4 the same for the
\* second path.  Each pair of angles has to split the other pair.
isCrossing(a1, a2, a3, a4) ==
    /\ isInRange(a3, a1, a2) # isInRange(a4, a1, a2)
    /\ isInRange(a3, a2, a1) # isInRange(a4, a2, a1)

IsHor(c) == c.a[2] = c.b[2]

Strictly(v, p, q) == Min(p, q) < v /\ v < Max(p, q)

CurveLength(c) == Abs(c.b[1] - c.a[1]) + Abs(c.b[2] - c.a[2])

\* Two perpendicular curves that meet in a point inside both.
ProperCrossing(c1, c2) ==
    \/ /\ IsHor(c1) /\ ~IsHor(c2)
       /\ Strictly(c2.a[1], c1.a[1], c1.b[1])
       /\ Strictly(c1.a[2], c2.a[2], c2.b[2])
    \/ /\ ~IsHor(c1) /\ IsHor(c2)
       /\ Strictly(c1.a[1], c2.a[1], c2.b[1])
       /\ Strictly(c2.a[2], c1.a[2], c1.b[2])

CrossingPoint(c1, c2) ==
    IF IsHor(c1) THEN <<c2.a[1], c1.a[2]>> ELSE <<c1.a[1], c2.a[2]>>

\* The curve that ends where c starts (Curve#getPrevious); its s1 is 0 if
\* there is none.
PreviousCurve(ph, sg, c) ==
    LET s0 == getPrevious(ph, sg, c.s1)
    IN  [path |-> c.path, s1 |-> s0, s2 |-> c.s1,
         a |-> IF s0 = 0 THEN c.a ELSE sg[s0].pt, b |-> c.a]

\* Two curves that start in the same point: the paths overlap there when a
\* curve of one at the point runs along a curve of the other, and cross
\* there when their tangents say so.
SharedStart(c1, c2) == c1.s1 # c2.s1 /\ c1.a = c2.a

StartOverlap(ph, sg, c1, c2) ==
    LET p1 == PreviousCurve(ph, sg, c1)
        p2 == PreviousCurve(ph, sg, c2)
        r1 == {Dir(c1.a, c1.b)} \cup (IF p1.s1 = 0 THEN {} ELSE {Dir(p1.b, p1.a)})
        r2 == {Dir(c2.a, c2.b)} \cup (IF p2.s1 = 0 THEN {} ELSE {Dir(p2.b, p2.a)})
    IN  r1 \cap r2 # {}

StartCrossing(ph, sg, c1, c2) ==
    LET p1 == PreviousCurve(ph, sg, c1)
        p2 == PreviousCurve(ph, sg, c2)
    IN  /\ p1.s1 # 0 /\ p2.s1 # 0
        /\ isCrossing(Dir(p1.b, p1.a), Dir(c1.a, c1.b),
                      Dir(p2.b, p2.a), Dir(c2.a, c2.b))

\* The intersections that PathItem#getCrossings keeps (overlaps and
\* crossings) of the curve lists cs1 and cs2, as pairs <<i, j>> of indices,
\* in the order of the first curve, then of the second.  For the crossings
\* of an item with itself both lists are the same and i < j.
Meet(ph, sg, c1, c2) ==
    \/ ProperCrossing(c1, c2)
    \/ /\ SharedStart(c1, c2)
       /\ StartOverlap(ph, sg, c1, c2) \/ StartCrossing(ph, sg, c1, c2)

MeetRow(ph, sg, cs1, cs2, self, i) ==
    LET Meets(pr) == (~self \/ pr[1] < pr[2]) /\ Meet(ph, sg, cs1[pr[1]], cs2[pr[2]])
    IN  SelectSeq([j \in 1..Len(cs2) |-> <<i, j>>], Meets)

MeetPairs(ph, sg, cs1, cs2, self) ==
    Flatten([i \in 1..Len(cs1) |-> MeetRow(ph, sg, cs1, cs2, self, i)])

\* The distance of a point of a straight curve from another point of it.
Dist(p, q) == Abs(p[1] - q[1]) + Abs(p[2] - q[2])

\* The two locations of one intersection, the second made with the first as
\* its _intersection.
LocationsAt(ph, sg, lc, c1, c2, pt, ovl) ==
    CurveLocation(ph, sg,
        CurveLocation(ph, sg, lc, c1, Dist(pt, c1.a), CurveLength(c1), pt, ovl, 0),
        c2, Dist(pt, c2.a), CurveLength(c2), pt, ovl, Len(lc) + 1)

LocationPair(ph, sg, lc, c1, c2) ==
    LocationsAt(ph, sg, lc, c1, c2,
                IF ProperCrossing(c1, c2) THEN CrossingPoint(c1, c2) ELSE c1.a,
                ~ProperCrossing(c1, c2) /\ StartOverlap(ph, sg, c1, c2))

RECURSIVE MakeLocations(_, _, _, _, _, _)
MakeLocations(ph, sg, lc, cs1, cs2, pairs) ==
    IF pairs = <<>> THEN lc
    ELSE MakeLocations(ph, sg,
             LocationPair(ph, sg, lc, cs1[Head(pairs)[1]], cs2[Head(pairs)[2]]),
             cs1, cs2, Tail(pairs))

\* The order of CurveLocation.sort and CurveLocation.expand: by path, by the
\* index of the curve in the path, by time; locations that agree in all
\* three stay in the order in which they were made.
LocBefore(ph, lc, x, y) ==
    LET i == IndexOf(ph[lc[x].path].segs, lc[x].curve)
        j == IndexOf(ph[lc[y].path].segs, lc[y].curve)
    IN  IF lc[x].path # lc[y].path THEN lc[x].path < lc[y].path
        ELSE IF i # j THEN i < j
        ELSE IF TimeLess(lc[x].tn, lc[x].td, lc[y].tn, lc[y].td) THEN TRUE
        ELSE IF TimeLess(lc[y].tn, lc[y].td, lc[x].tn, lc[x].td) THEN FALSE
        ELSE x < y

RECURSIVE SortLocs(_, _, _)
SortLocs(ph, lc, ids) ==
    IF ids = {} THEN <<>>
    ELSE LET m == CHOOSE x \in ids : \A y \in ids \ {x} : LocBefore(ph, lc, x, y)
         IN  <<m>> \o SortLocs(ph, lc, ids \ {m})

\* The locations made after the first n, in the order of CurveLocation.sort.
Expanded(ph, lc, n) == [lc |-> lc, list |-> SortLocs(ph, lc, (n + 1)..Len(lc))]

CrossingsOf(ph, sg, lc, cs1, cs2, self) ==
    Expanded(ph, MakeLocations(ph, sg, lc, cs1, cs2,
                               MeetPairs(ph, sg, cs1, cs2, self)),
             Len(lc))

\* CurveLocation.expand(item1.getCrossings(item2)): the new heap of
\* locations and the sorted list of the new locations of both sides.
\* it2 = 0 asks for the crossings of it1 with itself.
getCrossings(ph, sg, its, lc, it1, it2) ==
    CrossingsOf(ph, sg, lc, itemCurves(ph, sg, its[it1]),
                itemCurves(ph, sg, its[IF it2 = 0 THEN it1 ELSE it2]), it2 = 0)

----------------------------------------------------------------------------
(* linkIntersections and divideLocations *)

\* The walks along _previous and _next.  A walk takes at most Len(lc) + 1
\* steps on chains without a cycle; `fuel` only keeps the evaluation finite
\* where a chain has one.
RECURSIVE FoundBack(_, _, _, _)
FoundBack(lc, prev, to, fuel) ==
    IF prev = 0 \/ fuel = 0 THEN FALSE
    ELSE IF prev = to THEN TRUE
    ELSE FoundBack(lc, lc[prev].prev, to, fuel - 1)

RECURSIVE WalkToEnd(_, _, _, _)
WalkToEnd(lc, from, to, fuel) ==
    IF fuel > 0 /\ lc[from].next # 0 /\ lc[from].next # to
    THEN WalkToEnd(lc, lc[from].next, to, fuel - 1)
    ELSE from

\* A walk that stays at `to` instead of going back to the start of its chain.
StayAtTo(lc, to, fuel) == to

RECURSIVE WalkToStart(_, _, _)
WalkToStart(lc, to, fuel) ==
    IF fuel > 0 /\ lc[to].prev # 0
    THEN WalkToStart(lc, lc[to].prev, fuel - 1)
    ELSE to

\* linkIntersections(from, to) of lines 168-181: links through _next only and
\* looks for `to` only after `from`.
linkIntersectionsNextOnly(lc, from, to) ==
    IF from = to THEN lc
    ELSE LET f == WalkToEnd(lc, from, to, Len(lc) + 1)
         IN  IF lc[f].next = 0 THEN [lc EXCEPT ![f].next = to] ELSE lc

\* linkIntersections(from, to), lines 1292-1314.
linkIntersections(lc, from, to) ==
    IF FoundBack(lc, from, to, Len(lc) + 1) THEN lc
    ELSE LET f == WalkToEnd(lc, from, to, Len(lc) + 1)
         IN  IF lc[f].next = 0
             THEN LET t == WalkToStart(lc, to, Len(lc) + 1)
                  IN  [lc EXCEPT ![f].next = t, ![t].prev = f]
             ELSE lc

\* divideLocations, lines 1379-1383: links from the partner of every entry of
\* the chain of `inter` to `inter`.
RECURSIVE LinkOthers(_, _, _, _)
LinkOthers(lc, other, inter, fuel) ==
    IF other = 0 \/ fuel = 0 THEN lc
    ELSE LET lc1 == linkIntersections(lc, lc[other].inter, inter)
         IN  LinkOthers(lc1, lc1[other].next, inter, fuel - 1)

\* divideLocations, lines 1373-1386: the links of a location with the partner
\* `dest` that has landed on a segment whose _intersection is `inter`.  The
\* result is the new heap of locations and the segment's new _intersection.
LinkAtSegment(lc, inter, dest) ==
    IF inter # 0
    THEN [lc    |-> LinkOthers(linkIntersections(lc, inter, dest), inter, inter,
                               Len(lc) + 1),
          inter |-> inter]
    ELSE [lc |-> lc, inter |-> dest]

\* CurveLocation#_setSegment(segment): the location takes the segment, the
\* curve that starts at it (the curve that ends at it for the last segment
\* of an open path), the time 0 or 1 on that curve and the segment's point.
setSegment(ph, sg, loc, segment) ==
    LET nx == getNext(ph, sg, segment)
    IN  [loc EXCEPT !.seg = segment,
                    !.curve = IF nx # 0 THEN segment ELSE getPrevious(ph, sg, segment),
                    !.tn = IF nx # 0 THEN 0 ELSE 1,
                    !.td = 1,
                    !.pt = sg[segment].pt]

\* Curve#divideAtTime(time, true) of the curve that starts at s1: a new
\* segment at the point of the curve at tn / td, inserted after s1.
divideAtTime(ph, sg, s1, tn, td) ==
    LET p   == sg[s1].path
        s2  == getNext(ph, sg, s1)
        a   == sg[s1].pt
        b   == sg[s2].pt
        pt  == <<a[1] + ((b[1] - a[1]) * tn) \div td,
                 a[2] + ((b[2] - a[2]) * tn) \div td>>
        new == Len(sg) + 1
    IN  [sg  |-> Append(sg, NewSeg(pt, p)),
         ph  |-> [ph EXCEPT ![p].segs = InsertAt(@, IndexOf(@, s1), new)],
         seg |-> new]

\* divideLocations, lines 1341-1352: the time of the location on what is
\* left of its curve after the division of the iteration before.
DivideTime(loc, prevCurve, prevTime) ==
    IF loc.curve # prevCurve THEN <<loc.tn, loc.td>>
    ELSE IF ~TimeBelowMin(prevTime[1], prevTime[2])
            /\ ~TimeAboveMax(prevTime[1], prevTime[2])
    THEN <<loc.tn * prevTime[2], loc.td * prevTime[1]>>
    ELSE <<loc.tn, loc.td>>

\* divideLocations, lines 1353-1367: the segment of the location, an end of
\* the curve or a new segment.
DivideAt(ph, sg, curve, time) ==
    IF TimeBelowMin(time[1], time[2])
    THEN [sg |-> sg, ph |-> ph, seg |-> curve]
    ELSE IF TimeAboveMax(time[1], time[2])
    THEN [sg |-> sg, ph |-> ph, seg |-> getNext(ph, sg, curve)]
    ELSE divideAtTime(ph, sg, curve, time[1], time[2])

Linked(d, loc, k) ==
    [sg |-> [d.sg EXCEPT ![d.seg].inter = k.inter],
     ph |-> d.ph,
     lc |-> k.lc,
     prevCurve |-> loc.curve,
     prevTime  |-> <<loc.tn, loc.td>>]

\* A loop body without line 1368: the location is linked but never told its
\* segment.
AtSegmentUnset(lc, l, d) ==
    Linked(d, lc[l], LinkAtSegment(lc, d.sg[d.seg].inter, lc[l].inter))

\* divideLocations, lines 1368-1388: _setSegment and the links.
AtSegment(lc, l, d) ==
    Linked(d, lc[l],
           LinkAtSegment([lc EXCEPT ![l] = setSegment(d.ph, d.sg, lc[l], d.seg)],
                         d.sg[d.seg].inter, lc[l].inter))

\* One iteration of the loop of divideLocations, lines 1332-1389, for the
\* location l; prevCurve and prevTime are those of the iteration before.
\* No `include` filter is given.
DivideOne(ph, sg, lc, l, prevCurve, prevTime) ==
    AtSegment(lc, l, DivideAt(ph, sg, lc[l].curve,
                              DivideTime(lc[l], prevCurve, prevTime)))

----------------------------------------------------------------------------
(* preparePath and the helpers of computeBoolean *)

\* The lookup tables `operators`, lines 1137-1142.  resolveCrossings calls
\* tracePaths without an operator, written "resolve" here.
BooleanOps == {"unite", "intersect", "subtract", "exclude"}

\* Tables in which unite admits the winding 2 as well.
operatorsUniteBoth(op, w) ==
    \/ op = "unite" /\ w \in {1, 2}
    \/ op \in {"subtract", "exclude"} /\ w = 1
    \/ op = "intersect" /\ w = 2

operators(op, w) ==
    \/ op = "unite" /\ w = 1
    \/ op = "intersect" /\ w = 2
    \/ op = "subtract" /\ w = 1
    \/ op = "exclude" /\ w = 1

\* Item#clone(false) of a path item: new paths with new segments at the same
\* points; the fields _intersection, _winding, _contour and _visited are not
\* copied.
RECURSIVE ClonePaths(_, _, _, _)
ClonePaths(h, src, k, item) ==
    IF k > Len(src) THEN h
    ELSE ClonePaths(AddPath(h, PathPts(h.ph, h.sg, src[k]), h.ph[src[k]].closed, item),
                    src, k + 1, item)

cloneItem(h, it) ==
    LET new == Len(h.it) + 1
        h1  == ClonePaths(h, h.it[it].children, 1, new)
    IN  [h  |-> [h1 EXCEPT !.it = Append(@,
                    [h.it[it] EXCEPT !.children =
                        [k \in 1..Len(h.it[it].children) |-> Len(h.ph) + k]])],
         id |-> new]

\* An item on which reduce({ simplify: true }) and resolveCrossings() change
\* nothing: one path, no curve of which meets another one.
IsSimplePath(ph, sg, its, it) ==
    /\ Len(its[it].children) = 1
    /\ MeetPairs(ph, sg, itemCurves(ph, sg, its[it]), itemCurves(ph, sg, its[it]),
                 TRUE) = <<>>

\* A preparePath that hands out the operand itself instead of a clone.
preparePathInPlace(h, it) == [h |-> h, id |-> it]

\* preparePath(path, resolve), lines 1150-1154, for an item that satisfies
\* IsSimplePath: the clone, on which reduce(), transform() and
\* resolveCrossings() change nothing.
preparePath(h, it) == cloneItem(h, it)

\* PathItem#isClockwise(): the area is not negative.
RECURSIVE ItemArea2(_, _, _, _)
ItemArea2(ph, sg, children, k) ==
    IF k > Len(children) THEN 0
    ELSE Area2(ph, sg, children[k]) + ItemArea2(ph, sg, children, k + 1)

itemClockwise(ph, sg, it) == ItemArea2(ph, sg, it.children, 1) >= 0

\* PathItem#reverse(): the segments of every path in the opposite order.
reverseItem(ph, it) ==
    [p \in 1..Len(ph) |->
        IF Has(it.children, p) THEN [ph[p] EXCEPT !.segs = Reverse(@)] ELSE ph[p]]

\* The segments of the paths of an item, path after path (collect, line 1202).
itemSegments(ph, it) == Flatten([k \in 1..Len(it.children) |-> ph[it.children[k]].segs])

\* No Tool has been constructed.
NoTool == <<>>

\* The local variables of an operation that has not begun.  `assigned` is
\* not a variable of the code: it lists the segments in the order in which
\* lines 1620-1624 have assigned them a winding; nor is `current`, which
\* lists the segments that were `seg` at the head of an iteration of the
\* loop of lines 1723-1783, and `copied`, which lists the segments that
\* line 1709 or line 1776 has copied into a path.  `event` holds the locals
\* of Tool#_handleEvent while its loop runs.
NoFrame ==
    [op |-> "", p1 |-> 0, p2 |-> 0, w1 |-> 0, w2 |-> 0,
     crossings |-> <<>>, i |-> 0, prevCurve |-> 0, prevTime |-> <<0, 1>>,
     segments |-> <<>>, out |-> <<>>, path |-> 0, start |-> 0, otherStart |-> 0,
     seg |-> 0, inter |-> 0, finished |-> FALSE, res |-> 0, assigned |-> <<>>,
     current |-> <<>>, copied |-> <<>>, event |-> <<>>]

----------------------------------------------------------------------------
(* The state after construction: the operands of the calls to come *)

HeapOfPair(pr) ==
    AddItem(AddItem(EmptyHeap, <<pr[1]>>, FALSE, "nonzero"), <<pr[2]>>, FALSE, "nonzero")

HeapOfChildren(cl, rule) == AddItem(EmptyHeap, cl, Len(cl) > 1, rule)

InitialHeaps ==
    {HeapOfPair(pr) : pr \in OperandPairs}
    \cup {HeapOfChildren(cl, rule) : cl \in ChildLists, rule \in {"nonzero", "evenodd"}}

Init ==
    /\ \E h \in InitialHeaps : segs = h.sg /\ pths = h.ph /\ items = h.it
    /\ locs = <<>>
    /\ pc = "idle"
    /\ fr = NoFrame
    /\ hist = <<>>
    /\ snap = <<>>
    /\ threw = FALSE
    /\ tool = NoTool

\* The calls that may begin: the first call is made on the receiver, item 1,
\* with item 2, the receiver itself or nothing as the argument; the next
\* call repeats the operation with receiver and argument exchanged.
IsOpenPath(its, ph, it) == ~its[it].compound /\ ~ph[its[it].children[1]].closed

CanCall(op, p1, p2) ==
    /\ pc = "idle"
    /\ Len(hist) < MaxCalls
    /\ op \in BooleanOps
    /\ IF hist = <<>>
       THEN Len(items) = 2 /\ p1 = 1 /\ p2 \in {0, 1, 2}
       ELSE LET last == hist[Len(hist)]
            IN  /\ op = last.op /\ p1 = last.p2 /\ p2 = last.p1
                /\ p1 # 0 /\ p1 # p2

----------------------------------------------------------------------------
(* computeBoolean, lines 1171-1243 *)

\* Lines 1186-1190: the second clone is reversed when its orientation has to
\* differ from (subtract, exclude) or agree with (unite, intersect) that of
\* the first.  w2 = 0 stands for a second operand that is missing.
OrientSecond(h, w1, w2, op) ==
    IF /\ w2 # 0
       /\ (op \in {"subtract", "exclude"})
          # (itemClockwise(h.ph, h.sg, h.it[w2])
             # itemClockwise(h.ph, h.sg, h.it[w1]))
    THEN reverseItem(h.ph, h.it[w2])
    ELSE h.ph

Prepared(h, w1, w2, op) ==
    [sg |-> h.sg, ph |-> OrientSecond(h, w1, w2, op), it |-> h.it,
     w1 |-> w1, w2 |-> w2]

SecondPrepared(w1, c2, op) == Prepared(c2.h, w1, c2.id, op)

\* Line 1185: _path2 = path2 && path1 !== path2 && preparePath(path2, true).
PrepareSecond(c1, p1, p2, op) ==
    IF p2 # 0 /\ p1 # p2
    THEN SecondPrepared(c1.id, preparePath(c1.h, p2), op)
    ELSE Prepared(c1.h, c1.id, 0, op)

\* Lines 1184-1190: the heap with both clones.
PrepareBoth(h, p1, p2, op) == PrepareSecond(preparePath(h, p1), p1, p2, op)

\* Lines 1171-1197 for a closed receiver: the clones, the orientation of the
\* second clone, the crossings.
StartBoolean(op, p1, p2) ==
    /\ CanCall(op, p1, p2)
    /\ ~IsOpenPath(items, pths, p1)
    /\ IsSimplePath(pths, segs, items, p1)
    /\ p2 # 0 => IsSimplePath(pths, segs, items, p2)
    /\ LET Begin(q, x) ==
               /\ segs' = q.sg
               /\ pths' = q.ph
               /\ items' = q.it
               /\ locs' = x.lc
               /\ fr' = [NoFrame EXCEPT !.op = op, !.p1 = p1, !.p2 = p2,
                                        !.w1 = q.w1, !.w2 = q.w2,
                                        !.crossings = x.list, !.i = Len(x.list)]
           Cross(q) == Begin(q, getCrossings(q.ph, q.sg, q.it, locs, q.w1, q.w2))
       IN  Cross(PrepareBoth([sg |-> segs, ph |-> pths, it |-> items], p1, p2, op))
    /\ snap' = <<ItemValue(pths, segs, items, p1),
                 ItemValue(pths, segs, items, p2)>>
    /\ pc' = "divide"
    /\ UNCHANGED <<hist, threw, tool>>

\* One iteration of the loop of divideLocations.
DivideStep ==
    /\ pc = "divide"
    /\ fr.i >= 1
    /\ LET Divided(d) ==
               /\ segs' = d.sg
               /\ pths' = d.ph
               /\ locs' = d.lc
               /\ fr' = [fr EXCEPT !.i = @ - 1, !.prevCurve = d.prevCurve,
                                   !.prevTime = d.prevTime]
       IN  Divided(DivideOne(pths, segs, locs, fr.crossings[fr.i],
                             fr.prevCurve, fr.prevTime))
    /\ UNCHANGED <<items, pc, hist, snap, threw, tool>>

\* collect(paths), lines 1199-1208, for the paths of one item.
collect(ph, it) ==
    [p \in 1..Len(ph) |->
        IF Has(it.children, p)
        THEN [ph[p] EXCEPT !.overlapsOnly = TRUE, !.validOverlapsOnly = TRUE]
        ELSE ph[p]]

\* A collect() that gathers the segments of the first operand only.
firstSegments(ph, its, w1, w2) == itemSegments(ph, its[w1])

\* Lines 1210-1213: collect(_path1._children || [_path1]) and, if there is a
\* second operand, collect(_path2._children || [_path2]) fill `segments`.
collectSegments(ph, its, w1, w2) ==
    itemSegments(ph, its[w1])
        \o (IF w2 # 0 THEN itemSegments(ph, its[w2]) ELSE <<>>)

\* The end of divideLocations (the curves had no handles and keep none) and
\* lines 1210-1213 of computeBoolean.
DivideDone ==
    /\ pc = "divide"
    /\ fr.i = 0
    /\ fr.op \in BooleanOps
    /\ LET ph1 == collect(pths, items[fr.w1])
           ph2 == IF fr.w2 # 0 THEN collect(ph1, items[fr.w2]) ELSE ph1
       IN  /\ pths' = ph2
           /\ fr' = [fr EXCEPT
                 !.segments = collectSegments(pths, items, fr.w1, fr.w2),
                 !.i = 1]
    /\ pc' = "crossings"
    /\ UNCHANGED <<segs, locs, items, hist, snap, threw, tool>>

----------------------------------------------------------------------------
(* propagateWinding, lines 1577-1625 *)

\* Segment#getCurve(): the curve that starts at the segment; the last segment
\* of an open path belongs to the last curve.
getCurve(ph, sg, s) ==
    LET nx == getNext(ph, sg, s)
        pv == getPrevious(ph, sg, s)
    IN  IF nx # 0
        THEN [path |-> sg[s].path, s1 |-> s, s2 |-> nx, a |-> sg[s].pt, b |-> sg[nx].pt]
        ELSE [path |-> sg[s].path, s1 |-> pv, s2 |-> s, a |-> sg[pv].pt, b |-> sg[s].pt]

\* The do-while loop of lines 1586-1592: the segments from `s` up to the next
\* segment with an intersection, the end of the path or `start`.
RECURSIVE Chain(_, _, _, _, _)
Chain(ph, sg, s, start, fuel) ==
    LET nx == getNext(ph, sg, s)
    IN  IF fuel > 0 /\ nx # 0 /\ sg[nx].inter = 0 /\ nx # start
        THEN <<s>> \o Chain(ph, sg, nx, start, fuel - 1)
        ELSE <<s>>

RECURSIVE ChainLength(_, _, _, _)
ChainLength(ph, sg, chain, j) ==
    IF j > Len(chain) THEN 0
    ELSE CurveLength(getCurve(ph, sg, chain[j])) + ChainLength(ph, sg, chain, j + 1)

\* The point of a straight curve at the given length from its start.
PointAtLength(c, length) ==
    LET n == CurveLength(c)
    IN  IF n = 0 THEN c.a
        ELSE <<c.a[1] + ((c.b[1] - c.a[1]) * length) \div n,
               c.a[2] + ((c.b[2] - c.a[2]) * length) \div n>>

\* Lines 1595-1618: the entry of the chain that holds the middle of the
\* chain, and the winding at that point.  The result is <<>> when no entry
\* is found, else a one-element sequence with the winding record.
\* Lines 1599-1614: the winding at the point of the curve at `length`.
WindingAt(ph, sg, its, curve, pt, w1, w2, op) ==
    IF /\ op = "subtract" /\ w2 # 0
       /\ \/ /\ ph[curve.path].item = w1
             /\ ItemWinding(ph, sg, its[w2], pt, IsHor(curve)) # 0
          \/ /\ ph[curve.path].item = w2
             /\ ItemWinding(ph, sg, its[w1], pt, IsHor(curve)) = 0
    THEN [winding |-> 0, contour |-> -1]
    ELSE getWinding(ph, sg, pt,
                    itemCurves(ph, sg, its[w1])
                        \o (IF w2 # 0 THEN itemCurves(ph, sg, its[w2]) ELSE <<>>),
                    IsHor(curve))

SampleCurve(ph, sg, its, curve, length, w1, w2, op) ==
    WindingAt(ph, sg, its, curve, PointAtLength(curve, length), w1, w2, op)

RECURSIVE SampleWinding(_, _, _, _, _, _, _, _, _)
SampleWinding(ph, sg, its, chain, j, length, w1, w2, op) ==
    IF j > Len(chain) THEN <<>>
    ELSE IF length <= CurveLength(getCurve(ph, sg, chain[j]))
    THEN <<SampleCurve(ph, sg, its, getCurve(ph, sg, chain[j]), length, w1, w2, op)>>
    ELSE SampleWinding(ph, sg, its, chain, j + 1,
                       length - CurveLength(getCurve(ph, sg, chain[j])), w1, w2, op)

\* Lines 1594-1618 for a chain.
WindingOfChain(ph, sg, its, chain, w1, w2, op) ==
    SampleWinding(ph, sg, its, chain, 1, ChainLength(ph, sg, chain, 1) \div 2,
                  w1, w2, op)

\* An assignment to the first segment of the chain alone.
AssignWindingToFirst(sg, chain, w) ==
    [sg EXCEPT ![chain[1]].winding = w[1].winding, ![chain[1]].contour = w[1].contour]

\* Lines 1620-1624: the winding goes to every segment of the chain.
AssignWinding(sg, chain, w) ==
    [s \in 1..Len(sg) |->
        IF Has(chain, s)
        THEN [sg[s] EXCEPT !.winding = w[1].winding, !.contour = w[1].contour]
        ELSE sg[s]]

PropagateChain(ph, sg, its, chain, w1, w2, op) ==
    AssignWinding(sg, chain, WindingOfChain(ph, sg, its, chain, w1, w2, op))

\* propagateWinding(segment, path1, path2, curves, operator): the segments
\* after the assignment of _winding and _contour to the chain.
propagateWinding(ph, sg, its, segment, w1, w2, op) ==
    PropagateChain(ph, sg, its, Chain(ph, sg, segment, segment, Len(sg)), w1, w2, op)

\* One iteration of the loop of lines 1218-1221.
PropagateCrossing ==
    /\ pc = "crossings"
    /\ fr.i <= Len(fr.crossings)
    /\ segs' = propagateWinding(pths, segs, items, locs[fr.crossings[fr.i]].seg,
                                fr.w1, fr.w2, fr.op)
    /\ fr' = [fr EXCEPT !.i = @ + 1,
                        !.assigned = @ \o Chain(pths, segs, locs[fr.crossings[fr.i]].seg,
                                                locs[fr.crossings[fr.i]].seg, Len(segs))]
    /\ UNCHANGED <<pths, locs, items, pc, hist, snap, threw, tool>>

PropagateCrossingsDone ==
    /\ pc = "crossings"
    /\ fr.i > Len(fr.crossings)
    /\ fr' = [fr EXCEPT !.i = 1]
    /\ pc' = "segments"
    /\ UNCHANGED <<segs, pths, locs, items, hist, snap, threw, tool>>

\* Lines 1232-1239: a segment that is not part of an overlap clears
\* _overlapsOnly of its path, and _validOverlapsOnly if it is valid.
MarkOverlaps(ph, sg, lc, s, op) ==
    LET inter == sg[s].inter
        p     == sg[s].path
    IN  IF ~(inter # 0 /\ lc[inter].overlap)
        THEN [ph EXCEPT ![p].overlapsOnly = FALSE,
                        ![p].validOverlapsOnly =
                            IF operators(op, sg[s].winding) THEN FALSE ELSE @]
        ELSE ph

\* A test that takes every segment to be without a winding.
hasNoWindingEver(sg, s) == TRUE

\* Line 1226: segment._winding == null.
hasNoWinding(sg, s) == sg[s].winding = -1

\* One iteration of the loop of lines 1223-1240.
PropagateSegment ==
    /\ pc = "segments"
    /\ fr.i <= Len(fr.segments)
    /\ LET Marked(sg1) ==
               /\ segs' = sg1
               /\ pths' = MarkOverlaps(pths, sg1, locs, fr.segments[fr.i], fr.op)
       IN  Marked(IF hasNoWinding(segs, fr.segments[fr.i])
                  THEN propagateWinding(pths, segs, items, fr.segments[fr.i],
                                        fr.w1, fr.w2, fr.op)
                  ELSE segs)
    /\ fr' = [fr EXCEPT !.i = @ + 1,
                        !.assigned = IF hasNoWinding(segs, fr.segments[fr.i])
                                     THEN @ \o Chain(pths, segs, fr.segments[fr.i],
                                                     fr.segments[fr.i], Len(segs))
                                     ELSE @]
    /\ UNCHANGED <<locs, items, pc, hist, snap, threw, tool>>

PropagateSegmentsDone ==
    /\ pc = "segments"
    /\ fr.i > Len(fr.segments)
    /\ fr' = [fr EXCEPT !.i = 1]
    /\ pc' = "trace"
    /\ UNCHANGED <<segs, pths, locs, items, hist, snap, threw, tool>>

----------------------------------------------------------------------------
(* tracePaths, lines 1637-1818 *)

\* isValid(seg, excludeContour), lines 1642-1651; op = "resolve" stands for a
\* call without an operator.
isValid(sg, seg, op, excludeContour) ==
    /\ seg # 0
    /\ ~sg[seg].visited
    /\ \/ op = "resolve"
       \/ operators(op, sg[seg].winding)
       \/ ~excludeContour /\ op = "unite" /\ sg[seg].contour = 1

\* isStart(seg), lines 1653-1655.  start and otherStart are 0 while they are
\* null; a segment that is null is 0 too, and otherStart is never null once
\* start is a segment.
isStart(seg, start, otherStart) ==
    IF seg = 0 THEN start = 0 ELSE seg = start \/ seg = otherStart

\* The loop of findBestIntersection, lines 1663-1682.  The result is the chosen
\* intersection (0 for null) and whether the evaluation has thrown a
\* TypeError on `nextSeg._visited` with nextSeg null.
RECURSIVE BestLoop(_, _, _, _, _, _, _, _, _)
BestLoop(ph, sg, lc, inter, exclude, start, otherStart, op, fuel) ==
    IF inter = 0 \/ fuel = 0 THEN [inter |-> 0, threw |-> FALSE]
    ELSE
    LET seg       == lc[inter].seg
        nextSeg   == getNext(ph, sg, seg)
        nextInter == IF nextSeg # 0 THEN sg[nextSeg].inter ELSE 0
        begins    == isStart(seg, start, otherStart)
                        \/ isStart(nextSeg, start, otherStart)
    IN  IF seg = exclude
        THEN BestLoop(ph, sg, lc, lc[inter].next, exclude, start, otherStart, op,
                      fuel - 1)
        ELSE IF begins THEN [inter |-> inter, threw |-> FALSE]
        ELSE IF sg[seg].visited
        THEN BestLoop(ph, sg, lc, lc[inter].next, exclude, start, otherStart, op,
                      fuel - 1)
        ELSE IF nextSeg = 0 THEN [inter |-> 0, threw |-> TRUE]
        ELSE IF /\ ~sg[nextSeg].visited
                /\ \/ op = "resolve"
                   \/ /\ isValid(sg, seg, op, FALSE)
                      /\ \/ isValid(sg, nextSeg, op, FALSE)
                         \/ /\ nextInter # 0
                            /\ isValid(sg, lc[nextInter].seg, op, FALSE)
        THEN [inter |-> inter, threw |-> FALSE]
        ELSE BestLoop(ph, sg, lc, lc[inter].next, exclude, start, otherStart, op,
                      fuel - 1)

\* A findBestIntersection without the return of lines 1661-1662.
findBestInLoop(ph, sg, lc, inter, exclude, start, otherStart, op) ==
    BestLoop(ph, sg, lc, inter, exclude, start, otherStart, op, Len(lc) + 1)

\* findBestIntersection(inter, exclude), lines 1660-1683.
findBestIntersection(ph, sg, lc, inter, exclude, start, otherStart, op) ==
    IF lc[inter].next = 0 THEN [inter |-> inter, threw |-> FALSE]
    ELSE BestLoop(ph, sg, lc, inter, exclude, start, otherStart, op, Len(lc) + 1)

\* The geometry of an item: the points of its paths and whether they are
\* closed.
Geometry(ph, sg, its, it) ==
    IF it = 0 THEN <<>>
    ELSE [k \in 1..Len(its[it].children) |->
             [pts    |-> PathPts(ph, sg, its[it].children[k]),
              closed |-> ph[its[it].children[k]].closed]]

\* The record of a call that has ended: the operation, its operands, the item
\* it returned (0 for null) with its geometry at the return, and whether the
\* call ended with an exception.
Ended(res, val, thrown) ==
    [op |-> fr.op, p1 |-> fr.p1, p2 |-> fr.p2, res |-> res, val |-> val,
     threw |-> thrown]

\* A TypeError ends the call.
Throw ==
    /\ threw' = TRUE
    /\ UNCHANGED tool
    /\ hist' = Append(hist, Ended(0, <<>>, TRUE))
    /\ pc' = "idle"
    /\ fr' = NoFrame

\* A short cut that leaves the segments of both paths unmarked.
VisitNoPaths(ph, sg, p1, p2) == sg

\* Lines 1707-1709: all segments of both paths are visited.
VisitPaths(ph, sg, p1, p2) ==
    [s \in 1..Len(sg) |->
        IF Has(ph[p1].segs, s) \/ Has(ph[p2].segs, s)
        THEN [sg[s] EXCEPT !.visited = TRUE] ELSE sg[s]]

\* The head of the loop over the segments, lines 1685-1722.
TraceOuter ==
    /\ pc = "trace"
    /\ fr.i <= Len(fr.segments)
    /\ LET seg   == fr.segments[fr.i]
           inter == segs[seg].inter
           both  == ~segs[seg].visited /\ pths[segs[seg].path].overlapsOnly
       IN  IF both /\ inter = 0
           THEN Throw /\ UNCHANGED <<segs, pths, locs, items, snap>>
           ELSE
           LET path1 == segs[seg].path
               path2 == IF both THEN segs[locs[inter].seg].path ELSE path1
               same  == both /\ PathPts(pths, segs, path1) = PathPts(pths, segs, path2)
           IN  IF same /\ fr.op = "resolve"
               THEN Throw /\ UNCHANGED <<segs, pths, locs, items, snap>>
               ELSE
               LET keep == /\ same
                           /\ fr.op \in {"unite", "intersect"}
                           /\ Area2(pths, segs, path1) # 0
                   h0   == [sg |-> segs, ph |-> pths, it |-> items]
                   h1   == IF keep
                           THEN AddPath(h0, PathPts(pths, segs, path1),
                                        pths[path1].closed, 0)
                           ELSE h0
                   sg1  == IF same THEN VisitPaths(h1.ph, h1.sg, path1, path2)
                           ELSE h1.sg
                   out1 == IF keep THEN Append(fr.out, Len(h1.ph)) ELSE fr.out
                   cp1  == IF keep THEN fr.copied \o pths[path1].segs
                           ELSE fr.copied
                   skip == \/ ~isValid(sg1, seg, fr.op, TRUE)
                           \/ /\ ~pths[path1].validOverlapsOnly
                              /\ inter # 0 /\ locs[inter].overlap
               IN  /\ segs' = sg1
                   /\ pths' = h1.ph
                   /\ IF skip
                      THEN /\ fr' = [fr EXCEPT !.out = out1, !.i = @ + 1,
                                         !.copied = cp1]
                           /\ pc' = "trace"
                      ELSE /\ fr' = [fr EXCEPT !.out = out1, !.path = 0,
                                         !.finished = FALSE, !.seg = seg,
                                         !.inter = inter, !.start = 0,
                                         !.otherStart = 0, !.copied = cp1]
                           /\ pc' = "inner"
                   /\ UNCHANGED <<locs, items, hist, snap, threw, tool>>

\* A walk that adds a segment to the path without marking it.
markNothing(sg, seg) == sg

\* Line 1777: seg._visited = true for the segment added to the path.
markVisited(sg, seg) == [sg EXCEPT ![seg].visited = TRUE]

\* One iteration of the loop `while (true)`, lines 1723-1783.
TraceInner ==
    /\ pc = "inner"
    /\ LET best == IF fr.inter # 0
                   THEN findBestIntersection(pths, segs, locs, fr.inter, fr.seg,
                                             fr.start, fr.otherStart, fr.op)
                   ELSE [inter |-> 0, threw |-> FALSE]
       IN  IF best.threw
           THEN Throw /\ UNCHANGED <<segs, pths, locs, items, snap>>
           ELSE
           LET inter  == IF best.inter # 0 THEN best.inter ELSE fr.inter
               other  == IF inter # 0 THEN locs[inter].seg ELSE 0
               atSeg  == isStart(fr.seg, fr.start, fr.otherStart)
               atOth  == ~atSeg /\ other # 0 /\ isStart(other, fr.start, fr.otherStart)
               switch == /\ ~atSeg /\ other # 0 /\ ~atOth
                         /\ isValid(segs, other, fr.op,
                                    isValid(segs, fr.seg, fr.op, TRUE))
               sg1    == IF switch /\ fr.op \in {"intersect", "subtract"}
                         THEN [segs EXCEPT ![fr.seg].visited = TRUE] ELSE segs
               seg    == IF atOth \/ switch THEN other ELSE fr.seg
               fin    == atSeg \/ atOth
           IN  IF fin \/ sg1[seg].visited
               THEN /\ segs' = [sg1 EXCEPT ![seg].visited = TRUE]
                    /\ fr' = [fr EXCEPT !.finished = fin, !.seg = seg, !.inter = inter,
                                        !.current = Append(@, fr.seg)]
                    /\ pc' = "close"
                    /\ UNCHANGED <<pths, locs, items, hist, snap, threw, tool>>
               ELSE IF pths[sg1[seg].path].validOverlapsOnly
                       /\ ~isValid(sg1, seg, fr.op, FALSE)
               THEN /\ segs' = sg1
                    /\ fr' = [fr EXCEPT !.seg = seg, !.inter = inter,
                                        !.current = Append(@, fr.seg)]
                    /\ pc' = "close"
                    /\ UNCHANGED <<pths, locs, items, hist, snap, threw, tool>>
               ELSE
               LET fresh == fr.path = 0
                   path  == IF fresh THEN Len(pths) + 1 ELSE fr.path
                   ph1   == IF fresh
                            THEN Append(pths, [segs |-> <<>>, closed |-> FALSE,
                                               item |-> 0, overlapsOnly |-> FALSE,
                                               validOverlapsOnly |-> FALSE])
                            ELSE pths
                   next  == getNext(pths, sg1, seg)
                   new   == Len(sg1) + 1
                   sg2   == Append(markVisited(sg1, seg),
                                   NewSeg(sg1[seg].pt, path))
                   seg2  == IF next # 0 THEN next ELSE pths[sg1[seg].path].segs[1]
               IN  /\ segs' = sg2
                   /\ pths' = [ph1 EXCEPT ![path].segs = Append(@, new)]
                   /\ fr' = [fr EXCEPT !.path = path,
                                       !.start = IF fresh THEN seg ELSE @,
                                       !.otherStart = IF fresh THEN other ELSE @,
                                       !.seg = seg2, !.inter = sg2[seg2].inter,
                                       !.current = Append(@, fr.seg),
                                       !.copied = Append(@, seg)]
                   /\ pc' = "inner"
                   /\ UNCHANGED <<locs, items, hist, snap, threw, tool>>

\* A test that keeps every finished path.
CoversAreaAlways(ph, sg, p) == TRUE

\* Lines 1811-1812: a path with more than eight segments is taken to cover
\* an area, a shorter one has to have an area that is not zero.
CoversArea(ph, sg, p) == Len(ph[p].segs) > 8 \/ Area2(ph, sg, p) # 0

\* The end of one iteration of the loop over the segments, lines 1784-1815.
TraceClose ==
    /\ pc = "close"
    /\ IF fr.finished /\ fr.path = 0
       THEN Throw /\ UNCHANGED <<segs, pths, locs, items, snap>>
       ELSE
       LET ph1  == IF fr.finished THEN [pths EXCEPT ![fr.path].closed = TRUE]
                   ELSE pths
           path == IF fr.finished THEN fr.path ELSE 0
       IN  /\ pths' = ph1
           /\ fr' = [fr EXCEPT
                 !.out = IF path # 0 /\ CoversArea(ph1, segs, path)
                         THEN Append(@, path) ELSE @,
                 !.path = 0, !.i = @ + 1]
           /\ pc' = "trace"
           /\ UNCHANGED <<segs, locs, items, hist, snap, threw, tool>>

----------------------------------------------------------------------------
(* createResult, lines 1156-1169 *)

Parallel(a, b, c) == (a[2] = b[2] /\ b[2] = c[2]) \/ (a[1] = b[1] /\ b[1] = c[1])

\* Path#reduce({ simplify: true }) on a path without handles: a segment
\* between two collinear curves is removed, until there is none.
RECURSIVE Simplified(_, _, _)
Simplified(sg, ss, closed) ==
    LET n    == Len(ss)
        At(i) == sg[ss[((i - 1) % n) + 1]].pt
        mid  == {i \in 1..n :
                    /\ closed \/ (1 < i /\ i < n)
                    /\ Parallel(At(i + n - 1), At(i), At(i + 1))}
    IN  IF n < 3 \/ mid = {} THEN ss
        ELSE LET i == CHOOSE k \in mid : \A m \in mid : k >= m
             IN  Simplified(sg, SubSeq(ss, 1, i - 1) \o SubSeq(ss, i + 1, n), closed)

\* The paths of `ps` that are not empty.
RECURSIVE NonEmptyPaths(_, _)
NonEmptyPaths(ph, ps) ==
    IF ps = <<>> THEN <<>>
    ELSE (IF ph[Head(ps)].segs # <<>> THEN <<Head(ps)>> ELSE <<>>)
         \o NonEmptyPaths(ph, Tail(ps))

\* A new item with the given paths as its children: a compound path, reduced
\* to a path when it has one child or none.
NewItem(h, ps, fillRule) ==
    LET id == Len(h.it) + 1
    IN  [h  |-> [h EXCEPT
                    !.ph = [p \in 1..Len(h.ph) |->
                               IF Has(ps, p) THEN [h.ph[p] EXCEPT !.item = id]
                               ELSE h.ph[p]],
                    !.it = Append(@, [compound |-> Len(ps) > 1, children |-> ps,
                                      fillRule |-> fillRule])],
         id |-> id]

\* createResult(CompoundPath, paths, true, path1, path2).
createResult(h, paths, path1) ==
    LET ph1 == [p \in 1..Len(h.ph) |->
                   IF Has(paths, p)
                   THEN [h.ph[p] EXCEPT !.segs = Simplified(h.sg, @, h.ph[p].closed)]
                   ELSE h.ph[p]]
    IN  NewItem([h EXCEPT !.ph = ph1], NonEmptyPaths(ph1, paths),
                h.it[path1].fillRule)

\* The return of tracePaths to computeBoolean, lines 1241-1242 and 1817.
TraceDone ==
    /\ pc = "trace"
    /\ fr.i > Len(fr.segments)
    /\ fr.op \in BooleanOps
    /\ LET r == createResult([sg |-> segs, ph |-> pths, it |-> items], fr.out, fr.p1)
       IN  /\ segs' = r.h.sg
           /\ pths' = r.h.ph
           /\ items' = r.h.it
           /\ hist' = Append(hist, Ended(r.id, Geometry(r.h.ph, r.h.sg, r.h.it, r.id), FALSE))
    /\ pc' = "idle"
    /\ fr' = NoFrame
    /\ UNCHANGED <<locs, snap, threw, tool>>

----------------------------------------------------------------------------
(* resolveCrossings, lines 1908-2062, and getInteriorPoint, lines 2073-2126 *)

MinOf(S) == CHOOSE x \in S : \A y \in S : x <= y

MaxOf(S) == CHOOSE x \in S : \A y \in S : x >= y

\* path.getBounds().getArea().
BoundsArea(ph, sg, p) ==
    LET xs == {sg[ph[p].segs[i]].pt[1] : i \in 1..Len(ph[p].segs)}
        ys == {sg[ph[p].segs[i]].pt[2] : i \in 1..Len(ph[p].segs)}
    IN  IF xs = {} THEN 0 ELSE (MaxOf(xs) - MinOf(xs)) * (MaxOf(ys) - MinOf(ys))

\* A sort that hands the paths back in the opposite order.
reversedPaths(ph, sg, ps) == Reverse(ps)

\* Lines 1982-1984: the paths by the area of their bounds, largest first;
\* paths with equal areas keep their order.
RECURSIVE SortByBounds(_, _, _)
SortByBounds(ph, sg, ps) ==
    IF ps = <<>> THEN <<>>
    ELSE LET big == {i \in 1..Len(ps) :
                        \A j \in 1..Len(ps) :
                            BoundsArea(ph, sg, ps[i]) >= BoundsArea(ph, sg, ps[j])}
             i   == MinOf(big)
         IN  <<ps[i]>> \o SortByBounds(ph, sg, SubSeq(ps, 1, i - 1)
                                               \o SubSeq(ps, i + 1, Len(ps)))

\* Path#contains(point) of one path under the given fill rule.
pathContains(ph, sg, p, fillRule, pt) ==
    contains(ph, sg, [children |-> <<p>>, fillRule |-> fillRule], pt)

RECURSIVE SortedInts(_)
SortedInts(b) ==
    IF b = <<>> THEN <<>>
    ELSE LET m == MinOf(Range(b))
             i == MinOf({k \in 1..Len(b) : b[k] = m})
         IN  <<m>> \o SortedInts(SubSeq(b, 1, i - 1) \o SubSeq(b, i + 1, Len(b)))

\* Lines 2088-2119: the abscissas at which the curves that are not horizontal
\* meet the ray at height y, in the order of the curves.
RECURSIVE Intercepts(_, _, _)
Intercepts(cs, i, y) ==
    IF i > Len(cs) THEN <<>>
    ELSE LET c == cs[i]
         IN  (IF c.a[2] # c.b[2] /\ Min(c.a[2], c.b[2]) <= y /\ y <= Max(c.a[2], c.b[2])
              THEN <<c.a[1]>> ELSE <<>>)
             \o Intercepts(cs, i + 1, y)

\* bounds.getCenter(true): the centre of the bounds of the path.
BoundsCenter(ph, sg, p) ==
    LET xs == {sg[ph[p].segs[i]].pt[1] : i \in 1..Len(ph[p].segs)}
        ys == {sg[ph[p].segs[i]].pt[2] : i \in 1..Len(ph[p].segs)}
    IN  <<(MinOf(xs) + MaxOf(xs)) \div 2, (MinOf(ys) + MaxOf(ys)) \div 2>>

\* A point as getInteriorPoint returns it: [pt, nan], where nan says that
\* the abscissa is NaN (pt[1] is 0 then and means nothing).
Interior(pt) == [pt |-> pt, nan |-> FALSE]

InteriorNaN(y) == [pt |-> <<0, y>>, nan |-> TRUE]

\* Line 2123, point.x = (intercepts[0] + intercepts[1]) / 2: with a single
\* intercept intercepts[1] is undefined and the sum is NaN.
Midpoint(ics, point) ==
    IF Len(ics) < 2 THEN InteriorNaN(point[2])
    ELSE Interior(<<(ics[1] + ics[2]) \div 2, point[2]>>)

\* Path#getInteriorPoint(), lines 2073-2126: the centre of the bounds if the
\* path contains it or no curve that is not horizontal meets the ray
\* through the centre (line 2105), else the point half way between the
\* two smallest intercepts of the ray.
getInteriorPoint(ph, sg, p, fillRule) ==
    LET point == BoundsCenter(ph, sg, p)
        ics   == SortedInts(Intercepts(getCurves(ph, sg, p), 1, point[2]))
    IN  IF pathContains(ph, sg, p, fillRule, point) \/ Len(ics) = 0
        THEN Interior(point)
        ELSE Midpoint(ics, point)

\* The loop over j, lines 2000-2024, for the path at index i of `paths`.  st
\* holds windings, excluded, and exclude, isContained, container of the path.
\* No path contains a point whose abscissa is NaN.
RECURSIVE FindContainer(_, _, _, _, _, _, _, _)
FindContainer(ph, sg, paths, fillRule, point, i, j, st) ==
    IF j < 1 \/ st.container # 0 THEN st
    ELSE IF point.nan \/ ~pathContains(ph, sg, paths[j], fillRule, point.pt)
    THEN FindContainer(ph, sg, paths, fillRule, point, i, j - 1, st)
    ELSE
    LET add == fillRule = "nonzero" /\ ~st.isContained
        w   == IF add THEN [st.windings EXCEPT ![i] = @ + st.windings[j]]
               ELSE st.windings
    IN  IF add /\ w[i] # 0 /\ w[j] # 0
        THEN [st EXCEPT !.windings = w, !.exclude = TRUE,
                        !.excluded = @ \cup {i}]
        ELSE FindContainer(ph, sg, paths, fillRule, point, i, j - 1,
                 [st EXCEPT !.windings = w, !.isContained = TRUE,
                            !.container = IF j \in st.excluded THEN 0 ELSE paths[j]])

\* Path#setClockwise(clockwise).
setClockwise(ph, sg, p, clockwise) ==
    IF isClockwise(ph, sg, p) # clockwise
    THEN [ph EXCEPT ![p].segs = Reverse(@)] ELSE ph

\* The loop over i, lines 1994-2033.  The result holds the paths with their
\* new orientations and the list `items`.
RECURSIVE Reorient(_, _, _, _, _, _)
\* A placement that gives every kept path the orientation of the first.
PlacedLikeFirst(ph, sg, paths, fillRule, i, f) ==
    IF f.exclude
    THEN Reorient(ph, sg, paths, fillRule, i + 1, f)
    ELSE Reorient(setClockwise(ph, sg, paths[i], isClockwise(ph, sg, paths[1])),
                  sg, paths, fillRule, i + 1,
                  [f EXCEPT !.items = Append(@, paths[i])])

\* Lines 2025-2032: a path that is not excluded gets the orientation opposite
\* to that of its container, or that of the first path, and is kept.
Placed(ph, sg, paths, fillRule, i, f) ==
    IF f.exclude
    THEN Reorient(ph, sg, paths, fillRule, i + 1, f)
    ELSE Reorient(setClockwise(ph, sg, paths[i],
                      IF f.container # 0 THEN ~isClockwise(ph, sg, f.container)
                      ELSE isClockwise(ph, sg, paths[1])),
                  sg, paths, fillRule, i + 1,
                  [f EXCEPT !.items = Append(@, paths[i])])

Reorient(ph, sg, paths, fillRule, i, st) ==
    IF i > Len(paths) THEN [ph |-> ph, items |-> st.items]
    ELSE Placed(ph, sg, paths, fillRule, i,
             FindContainer(ph, sg, paths, fillRule,
                 getInteriorPoint(ph, sg, paths[i], fillRule), i, i - 1,
                 [st EXCEPT !.exclude = FALSE, !.isContained = FALSE,
                            !.container = 0]))

\* Lines 1977-2037: the paths that stay, with their orientations fixed.
OrientSorted(ph, sg, paths, fillRule) ==
    Reorient(ph, sg, paths, fillRule, 2,
        [windings |-> [k \in 1..Len(paths) |->
                          IF isClockwise(ph, sg, paths[k]) THEN 1 ELSE -1],
         excluded |-> {}, exclude |-> FALSE, isContained |-> FALSE,
         container |-> 0, items |-> <<paths[1]>>])

fixOrientation(ph, sg, ps, fillRule) ==
    IF Len(ps) <= 1 THEN [ph |-> ph, items |-> ps]
    ELSE OrientSorted(ph, sg, SortByBounds(ph, sg, ps), fillRule)

\* The calls of resolveCrossings that may begin: on the only item there is,
\* and then on the item that the call before has returned.
CanResolve(it) ==
    /\ pc = "idle"
    /\ Len(hist) < MaxCalls
    /\ IF hist = <<>> THEN Len(items) = 1 /\ it = 1
       ELSE LET last == hist[Len(hist)]
            IN  last.op = "resolve" /\ ~last.threw /\ it = last.res

\* Lines 1908-1926 and 1947-1950 for an item whose paths do not overlap: the
\* crossings of the item with itself.
StartResolve(it) ==
    /\ CanResolve(it)
    /\ LET Begin(x) ==
               /\ \A k \in 1..Len(x.list) : ~x.lc[x.list[k]].overlap
               /\ locs' = x.lc
               /\ fr' = [NoFrame EXCEPT !.op = "resolve", !.p1 = it, !.w1 = it,
                                        !.crossings = x.list, !.i = Len(x.list),
                                        !.out = items[it].children]
               /\ pc' = IF x.list # <<>> THEN "divide" ELSE "orient"
       IN  Begin(getCrossings(pths, segs, items, locs, it, 0))
    /\ snap' = <<>>
    /\ UNCHANGED <<segs, pths, items, hist, threw, tool>>

\* Lines 1970-1972: the segments of all paths go to tracePaths.
ResolveDivided ==
    /\ pc = "divide"
    /\ fr.i = 0
    /\ fr.op = "resolve"
    /\ fr' = [fr EXCEPT !.segments = itemSegments(pths, items[fr.w1]), !.i = 1,
                        !.out = <<>>]
    /\ pc' = "trace"
    /\ UNCHANGED <<segs, pths, locs, items, hist, snap, threw, tool>>

\* The return of tracePaths to resolveCrossings, line 1970.
ResolveTraced ==
    /\ pc = "trace"
    /\ fr.i > Len(fr.segments)
    /\ fr.op = "resolve"
    /\ pc' = "orient"
    /\ UNCHANGED <<segs, pths, locs, items, fr, hist, snap, threw, tool>>

\* Lines 2038-2061: the item that resolveCrossings returns for the paths
\* `ps`: the receiver with the paths as its children, the receiver with the
\* segments of the only path, or a new item.
Assemble(h, it, ps) ==
    LET this == h.it[it]
    IN  IF Len(ps) > 1 /\ this.compound
        THEN [h  |-> [h EXCEPT !.it[it].children = ps,
                               !.ph = [p \in 1..Len(h.ph) |->
                                          IF Has(ps, p)
                                          THEN [h.ph[p] EXCEPT !.item = it]
                                          ELSE h.ph[p]]],
              id |-> it]
        ELSE IF Len(ps) = 1 /\ ~this.compound
        THEN LET own == this.children[1]
             IN  IF ps[1] = own THEN [h |-> h, id |-> it]
                 ELSE [h  |-> [h EXCEPT
                                 !.ph[own].segs = h.ph[ps[1]].segs,
                                 !.ph[ps[1]].segs = <<>>,
                                 !.sg = [s \in 1..Len(h.sg) |->
                                            IF Has(h.ph[ps[1]].segs, s)
                                            THEN [h.sg[s] EXCEPT !.path = own]
                                            ELSE h.sg[s]]],
                       id |-> it]
        ELSE NewItem(h, NonEmptyPaths(h.ph, ps), this.fillRule)

\* Lines 1977-2061: the orientations and the returned item.
Orient ==
    /\ pc = "orient"
    /\ LET Return(r) ==
               /\ segs' = r.h.sg
               /\ pths' = r.h.ph
               /\ items' = r.h.it
               /\ hist' = Append(hist,
                            Ended(r.id, Geometry(r.h.ph, r.h.sg, r.h.it, r.id), FALSE))
           WithOrientation(o) ==
               Return(Assemble([sg |-> segs, ph |-> o.ph, it |-> items],
                               fr.p1, o.items))
       IN  WithOrientation(fixOrientation(pths, segs, fr.out, items[fr.p1].fillRule))
    /\ pc' = "idle"
    /\ fr' = NoFrame
    /\ UNCHANGED <<locs, snap, threw, tool>>

----------------------------------------------------------------------------
(* computeOpenBoolean, lines 1245-1284 *)

RECURSIVE PolyLength(_, _)
PolyLength(pts, i) ==
    IF i >= Len(pts) THEN 0
    ELSE Abs(pts[i + 1][1] - pts[i][1]) + Abs(pts[i + 1][2] - pts[i][2])
         + PolyLength(pts, i + 1)

\* path.getPointAt(offset) of an open path with the points pts.
RECURSIVE PolyPointAt(_, _, _)
PolyPointAt(pts, i, offset) ==
    IF i >= Len(pts) THEN pts[Len(pts)]
    ELSE LET c == [a |-> pts[i], b |-> pts[i + 1]]
         IN  IF offset <= CurveLength(c) THEN PointAtLength(c, offset)
             ELSE PolyPointAt(pts, i + 1, offset - CurveLength(c))

\* addPath(path), lines 1258-1265: whether the path is taken.
TakesPath(ph, sg, it2, pts, sub) ==
    contains(ph, sg, it2, PolyPointAt(pts, 1, PolyLength(pts, 1) \div 2)) # sub

\* The loop of lines 1269-1280 on the points of the open path: the location
\* at index i splits the path; the part after the location is taken or
\* dropped and the loop goes on with the part before it.  The result is the
\* list `paths` and at last the remaining path (line 1282).
RECURSIVE SplitLoop(_, _, _, _, _, _, _, _, _)
SplitLoop(ph, sg, lc, it2, sub, crossings, i, pts, paths) ==
    IF i < 1
    THEN (IF TakesPath(ph, sg, it2, pts, sub) THEN <<pts>> ELSE <<>>) \o paths
    ELSE
    LET loc  == lc[crossings[i]]
        k    == IndexOf(ph[loc.path].segs, loc.curve)
        q    == loc.pt
        head == SubSeq(pts, 1, k) \o (IF q = pts[k] THEN <<>> ELSE <<q>>)
        tail == <<q>> \o SubSeq(pts, k + 1, Len(pts))
    IN  IF k >= Len(pts)
        THEN SplitLoop(ph, sg, lc, it2, sub, crossings, i - 1, pts, paths)
        ELSE SplitLoop(ph, sg, lc, it2, sub, crossings, i - 1, head,
                       (IF TakesPath(ph, sg, it2, tail, sub) THEN <<tail>> ELSE <<>>)
                       \o paths)

\* _path1.getCrossings(_path2), line 1254: the locations on the open path.
OnPath(x, own) == SelectSeq(x.list, LAMBDA l : x.lc[l].path = own)

\* Lines 1269-1282: the parts of the open path that are taken.
OpenParts(q, x, own, sub) ==
    SplitLoop(q.ph, q.sg, x.lc, q.it[q.w2], sub, OnPath(x, own),
              Len(OnPath(x, own)), PathPts(q.ph, q.sg, own), <<>>)

\* Line 1283: the parts as new open paths in a new group.
OpenResult(q, x, fillRule, out) ==
    [h  |-> AddItem([sg |-> q.sg, ph |-> q.ph, it |-> q.it],
                    [k \in 1..Len(out) |-> Shape(out[k], FALSE)], TRUE, fillRule),
     lc |-> x.lc]

OpenCrossed(q, x, op, fillRule) ==
    OpenResult(q, x, fillRule,
               OpenParts(q, x, q.it[q.w1].children[1], op = "subtract"))

OpenPrepared(q, lc, op, fillRule) ==
    OpenCrossed(q, getCrossings(q.ph, q.sg, q.it, lc, q.w1, q.w2), op, fillRule)

OpenSecond(w1, c2) == [sg |-> c2.h.sg, ph |-> c2.h.ph, it |-> c2.h.it,
                       w1 |-> w1, w2 |-> c2.id]

OpenFirst(c1, p2) == OpenSecond(c1.id, preparePath(c1.h, p2))

\* computeOpenBoolean, lines 1252-1283: the heap with the result as its last
\* item, and the locations.
computeOpenBoolean(h, lc, p1, p2, op) ==
    OpenPrepared(OpenFirst(preparePath(h, p1), p2), lc, op, h.it[p1].fillRule)

\* computeBoolean, lines 1177-1179, for an open receiver: the whole of
\* computeOpenBoolean.
OpenBoolean(op, p1, p2) ==
    /\ CanCall(op, p1, p2)
    /\ IsOpenPath(items, pths, p1)
    /\ snap' = <<ItemValue(pths, segs, items, p1), ItemValue(pths, segs, items, p2)>>
    /\ IF p2 = 0 \/ (p2 # 0 /\ IsOpenPath(items, pths, p2))
          \/ op \notin {"subtract", "intersect"}
       THEN /\ hist' = Append(hist, [op |-> op, p1 |-> p1, p2 |-> p2, res |-> 0,
                                     val |-> <<>>, threw |-> FALSE])
            /\ UNCHANGED <<segs, pths, locs, items>>
       ELSE
       LET Return(r) ==
               /\ segs' = r.h.sg
               /\ pths' = r.h.ph
               /\ items' = r.h.it
               /\ locs' = r.lc
               /\ hist' = Append(hist, [op |-> op, p1 |-> p1, p2 |-> p2,
                                        res |-> Len(r.h.it),
                                        val |-> Geometry(r.h.ph, r.h.sg, r.h.it,
                                                         Len(r.h.it)),
                                        threw |-> FALSE])
       IN  Return(computeOpenBoolean([sg |-> segs, ph |-> pths, it |-> items],
                                     locs, p1, p2, op))
    /\ UNCHANGED <<pc, fr, threw, tool>>

----------------------------------------------------------------------------
(* The specification of the boolean operations and of resolveCrossings *)

Next ==
    \/ \E op \in BooleanOps, p1 \in {1, 2}, p2 \in {0, 1, 2} : StartBoolean(op, p1, p2)
    \/ \E op \in BooleanOps, p1 \in {1, 2}, p2 \in {0, 1, 2} : OpenBoolean(op, p1, p2)
    \/ DivideStep
    \/ DivideDone
    \/ PropagateCrossing
    \/ PropagateCrossingsDone
    \/ PropagateSegment
    \/ PropagateSegmentsDone
    \/ TraceOuter
    \/ TraceInner
    \/ TraceClose
    \/ TraceDone
    \/ \E it \in 1..Len(items) : StartResolve(it)
    \/ ResolveDivided
    \/ ResolveTraced
    \/ Orient

Spec == Init /\ [][Next]_vars

----------------------------------------------------------------------------
(* The constructions of CurveLocation, CurveLocation.js lines 44-72, one     *)
(* after the other on the curves of a square                                 *)

\* The curves and times of the constructions: the first two curves of the
\* square, a time inside the curve or its end.
LocCurves == {1, 2}

LocTimes == {4, 12}

InitLoc ==
    /\ \E h \in {HeapOfChildren(<<Shape(ARect, TRUE)>>, "nonzero")} :
           segs = h.sg /\ pths = h.ph /\ items = h.it
    /\ locs = <<>>
    /\ pc = "locations"
    /\ fr = NoFrame
    /\ hist = <<>>
    /\ snap = <<>>
    /\ threw = FALSE
    /\ tool = NoTool

\* new CurveLocation(curve, parameter, point, _distance, _overlap,
\* _intersection) with any location made before, or none, as _intersection.
NewLocation(c, tn, inter) ==
    /\ pc = "locations"
    /\ Len(locs) < MaxLocs
    /\ inter <= Len(locs)
    /\ locs' = CurveLocation(pths, segs, locs, getCurves(pths, segs, 1)[c], tn,
                             CurveLength(getCurves(pths, segs, 1)[c]),
                             PointAtLength(getCurves(pths, segs, 1)[c], tn),
                             FALSE, inter)
    /\ UNCHANGED <<segs, pths, items, pc, fr, hist, snap, threw, tool>>

NextLoc == \E c \in LocCurves, tn \in LocTimes, inter \in 0..MaxLocs :
               NewLocation(c, tn, inter)

SpecLoc == InitLoc /\ [][NextLoc]_vars

----------------------------------------------------------------------------
(* The links that divideLocations makes, lines 1367-1386, for locations that *)
(* arrive at the segments of a square in any order                           *)

\* The locations of n intersections as the finder makes them: a location
\* without _intersection, then its partner.
RECURSIVE LocationPairs(_, _, _, _)
LocationPairs(ph, sg, lc, n) ==
    IF n = 0 THEN lc
    ELSE LocationPairs(ph, sg,
             LocationsAt(ph, sg, lc, getCurves(ph, sg, 1)[1],
                         getCurves(ph, sg, 1)[2], sg[ph[1].segs[2]].pt, FALSE),
             n - 1)

InitLink ==
    /\ \E h \in {HeapOfChildren(<<Shape(ARect, TRUE)>>, "nonzero")} :
           /\ segs = h.sg /\ pths = h.ph /\ items = h.it
           /\ locs = LocationPairs(h.ph, h.sg, <<>>, MaxPairs)
    /\ pc = "link"
    /\ fr = NoFrame
    /\ hist = <<>>
    /\ snap = <<>>
    /\ threw = FALSE
    /\ tool = NoTool

\* The segments at which the locations arrive.
LinkSegments == {1, 2}

\* Lines 1367-1386 for the location l and the segment s.
Arrive(l, s) ==
    /\ pc = "link"
    /\ locs[l].seg = 0
    /\ LET Divided(d) == segs' = d.sg /\ locs' = d.lc
       IN  Divided(AtSegment(locs, l, [sg |-> segs, ph |-> pths, seg |-> s]))
    /\ UNCHANGED <<pths, items, pc, fr, hist, snap, threw, tool>>

NextLink == \E l \in 1..Len(locs), s \in LinkSegments : Arrive(l, s)

SpecLink == InitLink /\ [][NextLink]_vars

----------------------------------------------------------------------------
(* tracePaths on the intersection graphs of a closed and an open path.  The  *)
(* intersection finder and the geometry that decides where its locations     *)
(* arrive are not part of the sources: the graph is any that divideLocations *)
(* links for up to two intersections, and the windings of the two paths are  *)
(* any that propagateWinding can assign.                                     *)

\* A square of 4 x 4 units and an open path of three segments.
TraceShapes ==
    <<Shape(RectPts(8, 8, 12, 12), TRUE),
      Shape(<<<<10, 4>>, <<10, 10>>, <<16, 10>>>>, FALSE)>>

\* The locations of n intersections of the two paths as the finder makes
\* them: a location on the closed path, then its partner on the open path.
RECURSIVE PathPairs(_, _, _, _)
PathPairs(ph, sg, lc, n) ==
    IF n = 0 THEN lc
    ELSE PathPairs(ph, sg,
             LocationsAt(ph, sg, lc, getCurves(ph, sg, 1)[1],
                         getCurves(ph, sg, 2)[1], <<10, 8>>, FALSE),
             n - 1)

\* The segments at which the locations of the closed and of the open path
\* arrive: two corners of the square; the inner and the last segment of
\* the open path.
ClosedArrivals == {2, 3}

OpenArrivals == {6, 7}

\* The arrivals of 2 * n locations in the order of divideLocations, from the
\* last location to the first: the segment of each location.
Arrivals(n) ==
    {t \in [1..(2 * n) -> ClosedArrivals \cup OpenArrivals] :
        \A l \in 1..(2 * n) :
            t[l] \in (IF l % 2 = 1 THEN ClosedArrivals ELSE OpenArrivals)}

\* The loop of divideLocations over locations that are all at the start or
\* at the end of their curve.
RECURSIVE ArriveAll(_, _, _, _)
Arrived(h, d, t, l) == ArriveAll([h EXCEPT !.sg = d.sg], d.lc, t, l - 1)

ArriveAll(h, lc, t, l) ==
    IF l < 1 THEN [sg |-> h.sg, lc |-> lc]
    ELSE Arrived(h, AtSegment(lc, l, [sg |-> h.sg, ph |-> h.ph, seg |-> t[l]]),
                 t, l)

\* Every segment of a path has the winding of the path; collect() has set
\* the flags of the paths.
WithWindings(h, g, w) ==
    [sg |-> [s \in 1..Len(g.sg) |->
                [g.sg[s] EXCEPT !.winding = w[g.sg[s].path], !.contour = 0]],
     ph |-> collect(collect(h.ph, h.it[1]), h.it[2]),
     it |-> h.it,
     lc |-> g.lc]

TraceGraph(h, n, t, w) ==
    WithWindings(h, ArriveAll(h, PathPairs(h.ph, h.sg, <<>>, n), t, 2 * n), w)

TraceGraphs ==
    UNION {{TraceGraph(HeapOfPair(TraceShapes), n, t, w) :
                t \in Arrivals(n), w \in [1..2 -> 0..2]} : n \in 0..2}

InitTrace ==
    /\ \E g \in TraceGraphs :
           segs = g.sg /\ pths = g.ph /\ items = g.it /\ locs = g.lc
    /\ \E op \in BooleanOps :
           fr = [NoFrame EXCEPT !.op = op, !.p1 = 1, !.p2 = 2, !.w1 = 1, !.w2 = 2,
                                !.segments = itemSegments(pths, items[1])
                                             \o itemSegments(pths, items[2]),
                                !.i = 1]
    /\ pc = "segments"
    /\ hist = <<>>
    /\ snap = <<>>
    /\ threw = FALSE
    /\ tool = NoTool

NextTrace ==
    \/ PropagateSegment
    \/ PropagateSegmentsDone
    \/ TraceOuter
    \/ TraceInner
    \/ TraceClose
    \/ TraceDone

SpecTrace == InitTrace /\ [][NextTrace]_vars

\* tracePaths runs in one call without waiting for anything: a step that can
\* be taken is taken.
SpecTraceFair == SpecTrace /\ WF_vars(NextTrace)

----------------------------------------------------------------------------
(* Tool: the distances between the events of a drag.  The points of the     *)
(* mouse lie on one line, so a point is an integer, a vector is a difference *)
(* and its length is the absolute value.                                     *)

MaxPoint == 3
MaxDistance == 2
MaxCount == 1
MaxDown == 1

\* null or undefined, and a number n as <<n>>.
Null == <<>>

Points == 0..MaxPoint
Distances == {Null} \cup {<<d>> : d \in 0..MaxDistance}
EventTypes == {"mousedown", "mouseup", "mousedrag", "mousemove"}

\* initialize, lines 54-60: the tool with the handlers of props.
NewTool(handlers) ==
    [minDistance |-> Null, maxDistance |-> Null,
     point |-> Null, lastPoint |-> Null, downPoint |-> Null,
     firstMove |-> TRUE, count |-> 0, downCount |-> 0,
     handlers |-> handlers, emitted |-> <<>>]

\* setMinDistance, lines 88-94.
setMinDistance(t, minDistance) ==
    LET set == [t EXCEPT !.minDistance = minDistance]
    IN IF minDistance # Null /\ t.maxDistance # Null
          /\ minDistance[1] > t.maxDistance[1]
       THEN [set EXCEPT !.maxDistance = minDistance]
       ELSE set

\* setMaxDistance, lines 107-113.
setMaxDistance(t, maxDistance) ==
    LET set == [t EXCEPT !.maxDistance = maxDistance]
    IN IF t.minDistance # Null /\ maxDistance # Null
          /\ maxDistance[1] < t.minDistance[1]
       THEN [set EXCEPT !.minDistance = maxDistance]
       ELSE set

\* setFixedDistance, lines 125-127.
setFixedDistance(t, distance) ==
    [t EXCEPT !.minDistance = distance, !.maxDistance = distance]

\* vector.normalize(length) for a vector on the line.
normalize(vector, length) ==
    IF vector > 0 THEN length ELSE IF vector < 0 THEN 0 - length ELSE 0

\* A test that lets every distance pass.
NeverTooNear(distance, minDist) == FALSE

\* Line 288: distance < minDist.
TooNear(distance, minDist) == distance < minDist

\* _updateEvent, lines 281-322: the result and the tool after it.
updateEvent(t, type, point, minDistance, maxDistance, start, needsChange, matchMaxDistance) ==
    LET checks   == ~start /\ (minDistance # Null \/ maxDistance # Null)
        minDist  == IF minDistance # Null THEN minDistance[1] ELSE 0
        vector   == IF checks THEN point - t.point[1] ELSE 0
        distance == Abs(vector)
        limited  == checks /\ maxDistance # Null /\ maxDistance[1] # 0
        pt       == IF limited /\ distance > maxDistance[1]
                    THEN t.point[1] + normalize(vector, maxDistance[1])
                    ELSE point
        refused  == \/ checks /\ TooNear(distance, minDist)
                    \/ limited /\ distance <= maxDistance[1] /\ matchMaxDistance
                    \/ ~start /\ needsChange /\ <<pt>> = t.point
        moved    == [t EXCEPT !.lastPoint = IF start /\ type = "mousemove"
                                            THEN <<pt>> ELSE t.point,
                              !.point = <<pt>>]
        typed    == IF type = "mousedown"
                    THEN [moved EXCEPT !.lastPoint = t.downPoint,
                                       !.downPoint = <<pt>>,
                                       !.downCount = @ + 1]
                    ELSE IF type = "mouseup"
                    THEN [moved EXCEPT !.lastPoint = t.downPoint]
                    ELSE moved
    IN IF refused
       THEN [ok |-> FALSE, t |-> t]
       ELSE [ok |-> TRUE,
             t  |-> [typed EXCEPT !.count = IF start THEN 0 ELSE @ + 1]]

\* tool.responds(type): a handler of the type is installed.
responds(t, type) == type \in t.handlers

\* emit, lines 332-335: the ToolEvent that the handlers receive, with the
\* point and the last point of the tool at that moment.
emit(t, type) ==
    IF responds(t, type)
    THEN [t EXCEPT !.emitted = Append(@, [type |-> type, point |-> t.point,
                                          lastPoint |-> t.lastPoint])]
    ELSE t

RECURSIVE eventLoop(_, _, _, _, _, _)
RECURSIVE loopBody(_, _, _, _, _, _)

\* The body of the loop, lines 371-376, after _updateEvent has returned u.
loopBody(u, type, point, drag, needsChange, matchMaxDistance) ==
    IF ~u.ok
    THEN u.t
    ELSE IF drag
         THEN eventLoop(emit(u.t, type), type, point, drag, TRUE, TRUE)
         ELSE eventLoop([emit(u.t, type) EXCEPT !.firstMove = FALSE],
                        type, point, drag, needsChange, matchMaxDistance)

\* The loop of lines 368-377.
eventLoop(t, type, point, drag, needsChange, matchMaxDistance) ==
    loopBody(updateEvent(t, type, point, t.minDistance, t.maxDistance,
                         ~drag /\ t.firstMove, needsChange, matchMaxDistance),
             type, point, drag, needsChange, matchMaxDistance)

\* The case 'mouseup', lines 342-349.
mouseUp(t, type, point) ==
    LET emitted == emit(updateEvent(t, type, point, Null, t.maxDistance,
                                    FALSE, FALSE, FALSE).t, type)
    IN [updateEvent(emitted, type, point, Null, Null, TRUE, FALSE, FALSE).t
            EXCEPT !.firstMove = TRUE]

\* _handleEvent, lines 324-384: the tool after the event, with the events
\* that the call emitted.
handleEvent(t0, type, point) ==
    LET t    == [t0 EXCEPT !.emitted = <<>>]
        drag == type = "mousedrag" /\ responds(t, type)
    IN CASE type = "mousedown" ->
                emit(updateEvent(t, type, point, Null, Null, TRUE, FALSE,
                                 FALSE).t, type)
         [] type = "mouseup" -> mouseUp(t, type, point)
         [] OTHER ->
                eventLoop(t, IF drag THEN type ELSE "mousemove", point, drag,
                          ~drag, FALSE)

\* The handlers of the tools: all of them, or all but onMouseDrag.
HandlerSets == {EventTypes, EventTypes \ {"mousedrag"}}

InitTool ==
    /\ segs = <<>> /\ pths = <<>> /\ locs = <<>> /\ items = <<>>
    /\ pc = "tool"
    /\ fr = NoFrame
    /\ hist = <<>>
    /\ snap = <<>>
    /\ threw = FALSE
    /\ \E handlers \in HandlerSets : tool = NewTool(handlers)

\* tool.minDistance = d, tool.maxDistance = d or tool.fixedDistance = d.
SetDistance(d) ==
    /\ pc = "tool"
    /\ \/ tool' = setMinDistance(tool, d)
       \/ tool' = setMaxDistance(tool, d)
       \/ tool' = setFixedDistance(tool, d)
    /\ UNCHANGED <<segs, pths, locs, items, pc, fr, hist, snap, threw>>

\* The view hands a mouse event to the tool: the button goes down, and
\* between down and up the mouse drags, otherwise it moves.
HandleEvent(type, point) ==
    /\ pc = "tool"
    /\ type = "mousedown" => tool.downCount < MaxDown
    /\ type \in {"mousedrag", "mouseup"} => tool.point # Null
    /\ type \in {"mousedrag", "mousemove"} => tool.count < MaxCount
    /\ tool' = handleEvent(tool, type, point)
    /\ UNCHANGED <<segs, pths, locs, items, pc, fr, hist, snap, threw>>

NextTool ==
    \/ \E d \in Distances : SetDistance(d)
    \/ \E type \in EventTypes, point \in Points : HandleEvent(type, point)

SpecTool == InitTool /\ [][NextTool]_vars

----------------------------------------------------------------------------
(* isValid of tracePaths, lines 1642-1651, called on one segment in every    *)
(* state of its fields, or on null                                            *)

\* The segment handed to isValid: any winding (-1 while it has none), any
\* _contour (-1 while it has none), visited or not.
ValidSegments ==
    {<<>>} \cup
    {<<[NewSeg(<<0, 0>>, 0) EXCEPT !.winding = w, !.contour = c, !.visited = v]>> :
         w \in -1..2, c \in -1..1, v \in BOOLEAN}

InitValid ==
    /\ segs \in ValidSegments
    /\ pths = <<>> /\ locs = <<>> /\ items = <<>>
    /\ pc = "isValid"
    /\ \E op \in BooleanOps \cup {"resolve"}, excludeContour \in BOOLEAN :
           fr = [op |-> op, seg |-> Len(segs), excludeContour |-> excludeContour,
                 res |-> FALSE]
    /\ hist = <<>>
    /\ snap = <<>>
    /\ threw = FALSE
    /\ tool = NoTool

\* The call isValid(seg, excludeContour) of a tracePaths with the operator
\* of the frame.
CallIsValid ==
    /\ pc = "isValid"
    /\ pc' = "returned"
    /\ fr' = [fr EXCEPT !.res = isValid(segs, fr.seg, fr.op, fr.excludeContour)]
    /\ UNCHANGED <<segs, pths, locs, items, hist, snap, threw, tool>>

NextValid == CallIsValid

SpecValid == InitValid /\ [][NextValid]_vars

----------------------------------------------------------------------------
(* getWinding, lines 1492-1575: for points on and around two rectangles, and *)
(* lines 1561-1574 for any sums that the loop may leave                       *)

MaxWinding == 4

\* The sample points: on the sides of the rectangles, inside and outside.
WindingPoints == {<<x, y>> : x \in {6, 8, 10, 12, 14, 20}, y \in {6, 8, 10, 12, 14, 20}}

\* The accumulators of getWinding before its loop, lines 1493-1504.
NoWindings ==
    [w |-> <<0, 0>>, pw |-> <<0, 0>>, onPath |-> 0, isOn |-> FALSE, vPrev |-> 0]

InitWinding ==
    /\ \/ /\ \E pr \in {o \in OperandPairs : o[1].closed /\ o[2].closed} :
                 /\ segs = HeapOfPair(pr).sg
                 /\ pths = HeapOfPair(pr).ph
                 /\ items = HeapOfPair(pr).it
          /\ \E pt \in WindingPoints, horizontal \in BOOLEAN :
                 fr = [pt |-> pt, horizontal |-> horizontal, w |-> <<0, 0>>,
                       onPath |-> 0, res |-> <<>>]
          /\ pc = "getWinding"
       \/ /\ segs = <<>> /\ pths = <<>> /\ items = <<>>
          /\ \E l \in (0 - MaxWinding)..MaxWinding, r \in (0 - MaxWinding)..MaxWinding,
                o \in -1..1 :
                 fr = [pt |-> <<>>, horizontal |-> FALSE, w |-> <<l, r>>,
                       onPath |-> o, res |-> <<>>]
          /\ pc = "sums"
    /\ locs = <<>>
    /\ hist = <<>>
    /\ snap = <<>>
    /\ threw = FALSE
    /\ tool = NoTool

\* The frame after the loop of getWinding has left the sums of acc and the
\* lines 1561-1574 have made the result of them.
Returned(f, acc) ==
    [f EXCEPT !.w = acc.w, !.onPath = acc.onPath,
              !.res = WindingResult(SumWindings(acc))]

\* getWinding(point, curves, horizontal) on the curves of both items.
GetWinding ==
    /\ pc = "getWinding"
    /\ pc' = "returned"
    /\ fr' = Returned(fr, WindLoop(pths, segs,
                                   itemCurves(pths, segs, items[1])
                                       \o itemCurves(pths, segs, items[2]),
                                   1, fr.pt, IF fr.horizontal THEN 1 ELSE 0,
                                   NoWindings))
    /\ UNCHANGED <<segs, pths, locs, items, hist, snap, threw, tool>>

\* Lines 1561-1574 on the sums of the frame.
MapSums ==
    /\ pc = "sums"
    /\ pc' = "returned"
    /\ fr' = Returned(fr, fr)
    /\ UNCHANGED <<segs, pths, locs, items, hist, snap, threw, tool>>

NextWinding == GetWinding \/ MapSums

SpecWinding == InitWinding /\ [][NextWinding]_vars

----------------------------------------------------------------------------
(* addWinding, lines 1411-1490, on one piece: a straight piece along an axis *)
(* between grid points, or such a piece parallel to the ray whose first      *)
(* handle ends half way along it                                             *)

GridPoints == {<<x, y>> : x \in {0, 4, 8}, y \in {0, 4, 8}}

\* The values of a straight curve from a to b without handles.
Piece(a, b) == [a |-> a, b |-> b, path |-> 0, s1 |-> 0, s2 |-> 0]

StraightPieces ==
    {Piece(e[1], e[2]) :
         e \in {d \in GridPoints \X GridPoints :
                    d[1] # d[2] /\ (d[1][1] = d[2][1] \/ d[1][2] = d[2][2])}}

\* Straight curves whose first control point lies in the middle between
\* the end points.
HandledPieces ==
    {[a |-> v.a, b |-> v.b, path |-> 0, s1 |-> 0, s2 |-> 0,
      h1 |-> <<(v.a[1] + v.b[1]) \div 2, (v.a[2] + v.b[2]) \div 2>>] :
         v \in {u \in StraightPieces : Abs(u.a[1] - u.b[1]) + Abs(u.a[2] - u.b[2]) = 8}}

InitAdd ==
    /\ segs = <<>> /\ pths = <<>> /\ locs = <<>> /\ items = <<>>
    /\ pc = "addWinding"
    /\ \E coord \in {0, 1}, pt \in GridPoints, isOn \in BOOLEAN,
          v \in StraightPieces \cup HandledPieces :
           \E vPrev \in {u \in StraightPieces : Ordi(u.a, coord) # Ordi(u.b, coord)} :
               fr = [v |-> v, pt |-> pt, coord |-> coord,
                     acc |-> [NoWindings EXCEPT !.isOn = isOn, !.vPrev = vPrev],
                     res |-> NoWindings]
    /\ hist = <<>>
    /\ snap = <<>>
    /\ threw = FALSE
    /\ tool = NoTool

\* The call addWinding(v, vPrev, px, py, windings, isOnCurve, coord).
AddWinding ==
    /\ pc = "addWinding"
    /\ pc' = "returned"
    /\ fr' = [fr EXCEPT !.res = addWinding(fr.v, fr.acc, fr.pt, fr.coord)]
    /\ UNCHANGED <<segs, pths, locs, items, hist, snap, threw, tool>>

NextAdd == AddWinding

SpecAdd == InitAdd /\ [][NextAdd]_vars

----------------------------------------------------------------------------
(* The propagation of the windings, lines 1218-1240, on intersection graphs  *)
(* in which up to MaxShared locations of a path arrive at one segment         *)

MaxShared == 3

\* The graph of n intersections before any winding is assigned.
PropagateGraphs ==
    UNION {{ArriveAll(HeapOfPair(TraceShapes),
                      PathPairs(HeapOfPair(TraceShapes).ph,
                                HeapOfPair(TraceShapes).sg, <<>>, n),
                      t, 2 * n) : t \in Arrivals(n)} : n \in 0..MaxShared}

InitPropagate ==
    /\ \E g \in PropagateGraphs :
           /\ segs = g.sg
           /\ locs = g.lc
           /\ \E op \in BooleanOps :
                  fr = [NoFrame EXCEPT !.op = op, !.p1 = 1, !.p2 = 2,
                                       !.w1 = 1, !.w2 = 2,
                                       !.crossings = [k \in 1..Len(g.lc) |-> k],
                                       !.segments = [k \in 1..Len(g.sg) |-> k],
                                       !.i = 1]
    /\ pths = collect(collect(HeapOfPair(TraceShapes).ph,
                              HeapOfPair(TraceShapes).it[1]),
                      HeapOfPair(TraceShapes).it[2])
    /\ items = HeapOfPair(TraceShapes).it
    /\ pc = "crossings"
    /\ hist = <<>>
    /\ snap = <<>>
    /\ threw = FALSE
    /\ tool = NoTool

NextPropagate ==
    \/ PropagateCrossing
    \/ PropagateCrossingsDone
    \/ PropagateSegment
    \/ PropagateSegmentsDone

SpecPropagate == InitPropagate /\ [][NextPropagate]_vars

----------------------------------------------------------------------------
(* The orientation of the children of a compound path: the loop of           *)
(* resolveCrossings, lines 1977-2037, and CompoundPath#reorient, lines        *)
(* 1079-1098, with the getInteriorPoint of lines 1018-1045, on rectangles     *)
(* that lie inside each other or beside each other.                           *)

\* _getMonoCurves(), lines 993-1003, of a path without handles: its curves
\* and, if it is open, the line that joins its last point to its first.
MonoCurves(ph, sg, p) ==
    LET ss == ph[p].segs
    IN  getCurves(ph, sg, p)
        \o (IF ~ph[p].closed /\ Len(ss) > 1
               /\ sg[ss[Len(ss)]].pt # sg[ss[1]].pt
            THEN <<[path |-> p, s1 |-> ss[Len(ss)], s2 |-> ss[1],
                    a |-> sg[ss[Len(ss)]].pt, b |-> sg[ss[1]].pt]>>
            ELSE <<>>)

\* Lines 1030-1040: the loop stops as soon as it has two intercepts.
FirstTwo(xs) == IF Len(xs) > 2 THEN SubSeq(xs, 1, 2) ELSE xs

\* Path#getInteriorPoint() of lines 1018-1045: the centre of the bounds if the
\* path contains it, else the point half way between the first two
\* intercepts found along the path; line 1041 makes the abscissa NaN when
\* there are fewer than two.
getInteriorPointMono(ph, sg, p, fillRule) ==
    LET point == BoundsCenter(ph, sg, p)
    IN  IF pathContains(ph, sg, p, fillRule, point) THEN Interior(point)
        ELSE Midpoint(FirstTwo(Intercepts(MonoCurves(ph, sg, p), 1, point[2])),
                      point)

\* Lines 1091-1094: the number of the children before i that contain the point.
Counters(ph, sg, paths, fillRule, point, i) ==
    Cardinality({j \in 1..(i - 1) :
        ~point.nan /\ pathContains(ph, sg, paths[j], fillRule, point.pt)})

\* Line 1095: counters % 2 === 0 && clockwise.
EvenAndFirst(counters, clockwise) == counters % 2 = 0 /\ clockwise

\* The loop of lines 1088-1096 from the child i on.
RECURSIVE ReorientFrom(_, _, _, _, _, _)
ReorientFrom(ph, sg, paths, fillRule, clockwise, i) ==
    IF i > Len(paths) THEN ph
    ELSE ReorientFrom(
             setClockwise(ph, sg, paths[i],
                 EvenAndFirst(Counters(ph, sg, paths, fillRule,
                                  getInteriorPointMono(ph, sg, paths[i], fillRule), i),
                              clockwise)),
             sg, paths, fillRule, clockwise, i + 1)

\* CompoundPath#reorient(), lines 1079-1098: the children sorted by the area
\* of their bounds, and the paths with their new orientations.
reorient(ph, sg, ps, fillRule) ==
    LET Sorted(paths) ==
            [ph |-> IF paths = <<>> THEN ph
                    ELSE ReorientFrom(ph, sg, paths, fillRule,
                                      isClockwise(ph, sg, paths[1]), 2),
             items |-> paths]
    IN  Sorted(SortByBounds(ph, sg, ps))

MaxChildren == 4

\* Four rectangles that lie inside each other and one beside them.
Nested ==
    <<RectPts(0, 0, 32, 32), RectPts(4, 4, 28, 28), RectPts(8, 8, 24, 24),
      RectPts(12, 12, 20, 20), RectPts(36, 0, 44, 8)>>

\* The elements of the set S of numbers in rising order.
RECURSIVE Rising(_)
Rising(S) ==
    IF S = {} THEN <<>> ELSE <<MinOf(S)>> \o Rising(S \ {MinOf(S)})

\* The lists of two to MaxChildren of the rectangles, from the largest to
\* the smallest or the other way round, each rectangle in one of its two
\* orientations.
OrientLists ==
    LET picks == {S \in SUBSET (1..Len(Nested)) :
                     Cardinality(S) >= 2 /\ Cardinality(S) <= MaxChildren}
        List(order, cw) ==
            [k \in 1..Len(order) |->
                Shape(Oriented(Nested[order[k]], cw[order[k]]), TRUE)]
    IN  UNION {{List(order, cw) :
                   order \in {Rising(S), Reverse(Rising(S))},
                   cw \in [S -> BOOLEAN]} : S \in picks}

InitOrient ==
    /\ \E l \in OrientLists, rule \in {"nonzero", "evenodd"} :
           LET Start(h) == segs = h.sg /\ pths = h.ph /\ items = h.it
           IN  Start(HeapOfChildren(l, rule))
    /\ locs = <<>>
    /\ pc = "fix"
    /\ fr = NoFrame
    /\ hist = <<>>
    /\ snap = <<>>
    /\ threw = FALSE
    /\ tool = NoTool

\* The end of a fixer: the paths as they were are kept in snap, the paths
\* that stay, largest first, in fr.out.
Fixed(op, r) ==
    /\ pths' = r.ph
    /\ fr' = [fr EXCEPT !.op = op, !.out = r.items]
    /\ snap' = pths
    /\ pc' = "returned"
    /\ UNCHANGED <<segs, locs, items, hist, threw, tool>>

\* Lines 1977-2037 of resolveCrossings on the children of the item.
FixOrientation ==
    /\ pc = "fix"
    /\ Fixed("resolveCrossings",
             fixOrientation(pths, segs, items[1].children, items[1].fillRule))

\* CompoundPath#reorient() on the children of the item.
ReorientChildren ==
    /\ pc = "fix"
    /\ Fixed("reorient",
             reorient(pths, segs, items[1].children, items[1].fillRule))

NextOrient == FixOrientation \/ ReorientChildren

SpecOrient == InitOrient /\ [][NextOrient]_vars

----------------------------------------------------------------------------
(* Path#getInteriorPoint(), lines 2073-2126 and lines 1018-1045, on paths    *)
(* that contain the centre of their bounds and on paths that do not.         *)

\* A rectangle, an L, a U that is open to the top, the L without its last
\* curve, a horizontal line, a vertical line and a path of one segment.
InteriorShapes ==
    {Shape(RectPts(0, 0, 16, 16), TRUE),
     Shape(<<<<0, 0>>, <<16, 0>>, <<16, 4>>, <<4, 4>>, <<4, 16>>, <<0, 16>>>>, TRUE),
     Shape(<<<<0, 0>>, <<16, 0>>, <<16, 16>>, <<12, 16>>, <<12, 4>>, <<4, 4>>,
             <<4, 16>>, <<0, 16>>>>, TRUE),
     Shape(<<<<0, 0>>, <<16, 0>>, <<16, 4>>, <<4, 4>>, <<4, 16>>, <<0, 16>>>>, FALSE),
     Shape(<<<<0, 0>>, <<8, 0>>>>, FALSE),
     Shape(<<<<0, 0>>, <<0, 8>>>>, FALSE),
     Shape(<<<<0, 0>>>>, FALSE)}

\* The distances by which the shapes are moved.
Offsets == {0, 4, 8}

Moved(shape, dx, dy, cw) ==
    Shape(Oriented([k \in 1..Len(shape.pts) |->
                       <<shape.pts[k][1] + dx, shape.pts[k][2] + dy>>], cw),
          shape.closed)

InitInterior ==
    /\ \E shape \in InteriorShapes, dx \in Offsets, dy \in Offsets,
          cw \in BOOLEAN, rule \in {"nonzero", "evenodd"} :
           LET Start(h) == segs = h.sg /\ pths = h.ph /\ items = h.it
           IN  Start(HeapOfChildren(<<Moved(shape, dx, dy, cw)>>, rule))
    /\ locs = <<>>
    /\ pc = "interior"
    /\ fr = NoFrame
    /\ hist = <<>>
    /\ snap = <<>>
    /\ threw = FALSE
    /\ tool = NoTool

\* The return of a call on path 1: the point is kept in hist.
ReturnsPoint(op, point) ==
    /\ hist' = <<[op |-> op, res |-> point]>>
    /\ pc' = "returned"
    /\ UNCHANGED <<segs, pths, locs, items, fr, snap, threw, tool>>

InteriorPoint ==
    /\ pc = "interior"
    /\ ReturnsPoint("getInteriorPoint",
                    getInteriorPoint(pths, segs, 1, items[1].fillRule))

InteriorPointMono ==
    /\ pc = "interior"
    /\ ReturnsPoint("getInteriorPointMono",
                    getInteriorPointMono(pths, segs, 1, items[1].fillRule))

NextInterior == InteriorPoint \/ InteriorPointMono

SpecInterior == InitInterior /\ [][NextInterior]_vars

----------------------------------------------------------------------------
(* handleCurve of Path#_getMonoCurves, lines 940-983: the number of curves    *)
(* that it inserts for one cubic curve.  The values of a curve are            *)
(* <<x0, y0, x1, y1, x2, y2, x3, y3>>: the two end points and, between them,  *)
(* the two control points.                                                   *)

MaxX == 1
MaxY == 2

CurveValues ==
    {<<x[1], y[1], x[2], y[2], x[3], y[3], x[4], y[4]>> :
        x \in [1..4 -> 0..MaxX], y \in [1..4 -> 0..MaxY]}

\* Curve.getLength(v) === 0: a cubic has no length only if its four points
\* are one point.
IsZeroLength(v) ==
    /\ v[1] = v[3] /\ v[3] = v[5] /\ v[5] = v[7]
    /\ v[2] = v[4] /\ v[4] = v[6] /\ v[6] = v[8]

\* Curve.isStraight(v): both handles are zero, or they lie along the line
\* between the end points and point into it.
IsStraight(v) ==
    LET h1 == <<v[3] - v[1], v[4] - v[2]>>
        h2 == <<v[5] - v[7], v[6] - v[8]>>
        l  == <<v[7] - v[1], v[8] - v[2]>>
        Cross(p, q) == p[1] * q[2] - p[2] * q[1]
        Dot(p, q)   == p[1] * q[1] + p[2] * q[2]
    IN  IF h1 = <<0, 0>> /\ h2 = <<0, 0>> THEN TRUE
        ELSE IF l = <<0, 0>> THEN FALSE
        ELSE /\ Cross(l, h1) = 0 /\ Cross(l, h2) = 0
             /\ Dot(l, h1) >= 0 /\ Dot(l, h1) <= Dot(l, l)
             /\ Dot(l, h2) <= 0 /\ Dot(l, h2) >= -Dot(l, l)

\* The root (-b + sign * sqrt(D)) / (2 * a) of a quadratic with a > 0 lies
\* strictly between 0 and 1.
RootInside(a, b, D, sign) ==
    LET lo == b
        hi == (2 * a) + b
    IN  IF sign = 1
        THEN (lo < 0 \/ D > lo * lo) /\ (hi > 0 /\ D < hi * hi)
        ELSE (lo < 0 /\ D < lo * lo) /\ (hi > 0 \/ D > hi * hi)

\* Numerical.solveQuadratic(a, b, c, roots, tMin, tMax) with tMin just above
\* 0 and tMax just below 1: the number of the roots between them, and -1 if
\* every t is a root.
solveQuadratic(a, b, c) ==
    IF a = 0
    THEN IF b = 0 THEN (IF c = 0 THEN -1 ELSE 0)
         ELSE IF (b > 0 /\ -c > 0 /\ -c < b) \/ (b < 0 /\ c > 0 /\ c < -b)
         THEN 1 ELSE 0
    ELSE LET sa == IF a > 0 THEN a ELSE -a
             sb == IF a > 0 THEN b ELSE -b
             sc == IF a > 0 THEN c ELSE -c
             D  == (sb * sb) - (4 * sa * sc)
         IN  IF D < 0 THEN 0
             ELSE IF D = 0
             THEN (IF -sb > 0 /\ -sb < 2 * sa THEN 1 ELSE 0)
             ELSE (IF RootInside(sa, sb, D, 1) THEN 1 ELSE 0)
                  + (IF RootInside(sa, sb, D, -1) THEN 1 ELSE 0)

\* Lines 965-980: the curve is inserted whole if the derivative has no root,
\* else its first part, the part between two roots if there are two, and
\* the last part.
SplitAtRoots(n) == IF n = 0 THEN 1 ELSE IF n > 1 THEN 3 ELSE 2

\* A handleCurve without the filter of lines 943-944.
handleCurveOfAnyLength(v) ==
    IF IsStraight(v) THEN 1
    ELSE SplitAtRoots(solveQuadratic((3 * (v[4] - v[6])) - v[2] + v[8],
                                     (2 * (v[2] + v[6])) - (4 * v[4]),
                                     v[4] - v[2]))

\* handleCurve(v), lines 940-983: the number of calls of insertCurve.
handleCurve(v) ==
    IF IsZeroLength(v) THEN 0
    ELSE IF IsStraight(v) THEN 1
    ELSE SplitAtRoots(solveQuadratic((3 * (v[4] - v[6])) - v[2] + v[8],
                                     (2 * (v[2] + v[6])) - (4 * v[4]),
                                     v[4] - v[2]))

InitMono ==
    /\ segs = <<>> /\ pths = <<>> /\ items = <<>> /\ locs = <<>>
    /\ \E v \in CurveValues : snap = v
    /\ pc = "handleCurve"
    /\ fr = NoFrame
    /\ hist = <<>>
    /\ threw = FALSE
    /\ tool = NoTool

\* handleCurve on the values in snap; the number of inserted curves is kept
\* in fr.res.
HandleCurve ==
    /\ pc = "handleCurve"
    /\ fr' = [fr EXCEPT !.res = handleCurve(snap)]
    /\ pc' = "returned"
    /\ UNCHANGED <<segs, pths, locs, items, hist, snap, threw, tool>>

NextMono == HandleCurve

SpecMono == InitMono /\ [][NextMono]_vars

----------------------------------------------------------------------------
(* linkIntersections(from, to), lines 1292-1314, called in any order on      *)
(* locations that have no links.                                             *)

MaxLinked == 5

\* n locations on the first curve of the square, none with an _intersection.
RECURSIVE Unlinked(_, _, _, _)
Unlinked(ph, sg, lc, n) ==
    IF n = 0 THEN lc
    ELSE Unlinked(ph, sg,
             CurveLocation(ph, sg, lc, getCurves(ph, sg, 1)[1], 0, 1,
                           sg[ph[1].segs[1]].pt, FALSE, 0),
             n - 1)

InitCalls ==
    /\ \E h \in {HeapOfChildren(<<Shape(ARect, TRUE)>>, "nonzero")} :
           /\ segs = h.sg /\ pths = h.ph /\ items = h.it
           /\ locs = Unlinked(h.ph, h.sg, <<>>, MaxLinked)
    /\ pc = "link"
    /\ fr = NoFrame
    /\ hist = <<>>
    /\ snap = <<>>
    /\ threw = FALSE
    /\ tool = NoTool

\* One call linkIntersections(from, to).
Link(from, to) ==
    /\ pc = "link"
    /\ locs' = linkIntersections(locs, from, to)
    /\ UNCHANGED <<segs, pths, items, pc, fr, hist, snap, threw, tool>>

NextCalls == \E from \in 1..Len(locs), to \in 1..Len(locs) : Link(from, to)

SpecCalls == InitCalls /\ [][NextCalls]_vars

----------------------------------------------------------------------------
(* The loop of Tool#_handleEvent, lines 368-377 of part_000, one iteration   *)
(* at a time, for one mousedrag or mousemove event and any setting of the    *)
(* distances that the setters accept: null, zero, positive or negative.      *)

MaxNegative == 1
MaxReach == 6

LoopDistances == {Null} \cup {<<d>> : d \in (0 - MaxNegative)..MaxDistance}

\* The tools before the event: made with the handlers, the distances set in
\* either order, the mouse moved to p or not, the button pressed at p or not.
LoopTools ==
    LET Pressed(t, p, down) ==
            IF down THEN handleEvent(t, "mousedown", p) ELSE t
        MovedTo(t, p, moved, down) ==
            Pressed(IF moved THEN handleEvent(t, "mousemove", p) ELSE t, p, down)
        Distanced(t, mn, mx, first) ==
            IF first THEN setMaxDistance(setMinDistance(t, mn), mx)
            ELSE setMinDistance(setMaxDistance(t, mx), mn)
    IN  {MovedTo(Distanced(NewTool(handlers), mn, mx, first), p, moved, down) :
            handlers \in HandlerSets, mn \in LoopDistances, mx \in LoopDistances,
            first \in BOOLEAN, p \in Points, moved \in BOOLEAN, down \in BOOLEAN}

InitLoop ==
    /\ segs = <<>> /\ pths = <<>> /\ locs = <<>> /\ items = <<>>
    /\ pc = "tool"
    /\ fr = NoFrame
    /\ hist = <<>>
    /\ snap = <<>>
    /\ threw = FALSE
    /\ tool \in LoopTools

\* Lines 324-367: _handleEvent is called with a mousedrag or a mousemove
\* event and reaches the loop.
BeginEvent(type, point) ==
    /\ pc = "tool"
    /\ type \in {"mousedrag", "mousemove"}
    /\ type = "mousedrag" => tool.downCount > 0
    /\ LET drag == type = "mousedrag" /\ responds(tool, type)
       IN  fr' = [fr EXCEPT !.event =
                     [type |-> IF drag THEN type ELSE "mousemove",
                      point |-> point, drag |-> drag,
                      needsChange |-> ~drag, matchMaxDistance |-> FALSE]]
    /\ tool' = [tool EXCEPT !.emitted = <<>>]
    /\ pc' = "loop"
    /\ UNCHANGED <<segs, pths, locs, items, hist, snap, threw>>

\* One test of the loop condition, lines 368-370, and, if _updateEvent
\* returns true, the body of the loop, lines 371-376.  The points of the
\* tool are followed up to the distance MaxReach from the origin.
LoopStep ==
    /\ pc = "loop"
    /\ tool.point # Null => Abs(tool.point[1]) <= MaxReach
    /\ LET e == fr.event
           Updated(u) ==
               IF ~u.ok
               THEN /\ tool' = u.t
                    /\ pc' = "returned"
                    /\ fr' = fr
               ELSE /\ tool' = IF e.drag THEN emit(u.t, e.type)
                               ELSE [emit(u.t, e.type) EXCEPT !.firstMove = FALSE]
                    /\ pc' = "loop"
                    /\ fr' = IF e.drag
                             THEN [fr EXCEPT !.event.needsChange = TRUE,
                                             !.event.matchMaxDistance = TRUE]
                             ELSE fr
       IN  Updated(updateEvent(tool, e.type, e.point, tool.minDistance,
                               tool.maxDistance, ~e.drag /\ tool.firstMove,
                               e.needsChange, e.matchMaxDistance))
    /\ UNCHANGED <<segs, pths, locs, items, hist, snap, threw>>

NextLoop ==
    \/ \E type \in EventTypes, point \in Points : BeginEvent(type, point)
    \/ LoopStep

SpecLoop == InitLoop /\ [][NextLoop]_vars

\* _handleEvent runs without waiting for anything: the next iteration of its
\* loop is taken whenever there is one.
SpecLoopFair == SpecLoop /\ WF_vars(LoopStep)

----------------------------------------------------------------------------
(* Properties of the boolean operations: C1 - C10 *)

\* The operands of the running call, or of the call that has ended last.
Operands ==
    IF pc # "idle" THEN <<fr.p1, fr.p2>>
    ELSE IF hist # <<>> THEN <<hist[Len(hist)].p1, hist[Len(hist)].p2>>
    ELSE <<0, 0>>

\* A closed path that is not a compound path.
IsClosedPath(it) ==
    it # 0 /\ ~items[it].compound /\ pths[items[it].children[1]].closed

\* The argument is the receiver itself or has the same outline.
SameRegion(a, b) ==
    a = b \/ Geometry(pths, segs, items, a) = Geometry(pths, segs, items, b)

\* The points of a contour from any starting point, in either direction.
Rotate(s, k) == [i \in 1..Len(s) |-> s[((i - 1 + k) % Len(s)) + 1]]

Variants(pts) ==
    {Rotate(pts, k) : k \in 0..(Len(pts) - 1)}
        \cup {Rotate(Reverse(pts), k) : k \in 0..(Len(pts) - 1)}

\* The contours of a result, whatever their order, start and orientation.
Contours(val) == {Variants(val[k].pts) : k \in 1..Len(val)}

\* C1: while unite, intersect, subtract or exclude runs and after it has
\* returned, the segment lists, the orientation and the fields _intersection,
\* _winding, _contour and _visited of the segments of both operands are what
\* they were when the call began: every change is made on the clones.
OperandsUnchanged ==
    snap # <<>> =>
        snap = <<ItemValue(pths, segs, items, Operands[1]),
                 ItemValue(pths, segs, items, Operands[2])>>

\* A call on two distinct operands has divided curves at crossings, marked
\* segments and returned a path.
OperandsUnchangedWitness ==
    /\ pc = "idle"
    /\ hist # <<>>
    /\ snap # <<>>
    /\ hist[Len(hist)].op \in BooleanOps
    /\ hist[Len(hist)].p2 # 0
    /\ hist[Len(hist)].p2 # hist[Len(hist)].p1
    /\ hist[Len(hist)].val # <<>>
    /\ \E l \in 1..Len(locs) : locs[l].seg # 0
    /\ \E s \in 1..Len(segs) : segs[s].visited /\ segs[s].inter # 0

\* C2: A.subtract(A) on a closed path A returns an empty item, for an
\* argument with the outline of A and for the receiver itself.
SubtractSelfEmpty ==
    \A k \in 1..Len(hist) :
        (/\ hist[k].op = "subtract"
         /\ IsClosedPath(hist[k].p1)
         /\ hist[k].p2 # 0
         /\ SameRegion(hist[k].p1, hist[k].p2))
        => (~hist[k].threw /\ hist[k].res # 0 /\ hist[k].val = <<>>)

\* C3: A.intersect(A) on a closed path A with an area returns one closed
\* contour with the points of A, for an argument with the outline of A and
\* for the receiver itself.
IntersectSelfSame ==
    \A k \in 1..Len(hist) :
        (/\ hist[k].op = "intersect"
         /\ IsClosedPath(hist[k].p1)
         /\ hist[k].p2 # 0
         /\ SameRegion(hist[k].p1, hist[k].p2)
         /\ Area2(pths, segs, items[hist[k].p1].children[1]) # 0)
        => (/\ ~hist[k].threw
            /\ Len(hist[k].val) = 1
            /\ hist[k].val[1].closed
            /\ hist[k].val[1].pts
                   \in Variants(PathPts(pths, segs, items[hist[k].p1].children[1])))

\* Two calls of unite, one after the other, on closed paths A and B: first
\* A.unite(B), then B.unite(A).
UnitePair(k) ==
    /\ hist[k].op = "unite"
    /\ hist[k + 1].op = "unite"
    /\ hist[k].p2 # 0
    /\ hist[k].p2 # hist[k].p1
    /\ hist[k + 1].p1 = hist[k].p2
    /\ hist[k + 1].p2 = hist[k].p1
    /\ IsClosedPath(hist[k].p1)
    /\ IsClosedPath(hist[k].p2)

\* C4: A.unite(B) and B.unite(A) on closed paths return the same set of
\* closed contours, up to the order of the contours, their starting segment
\* and their orientation.
UniteCommutes ==
    \A k \in 1..(Len(hist) - 1) :
        UnitePair(k) =>
            /\ ~hist[k].threw /\ ~hist[k + 1].threw
            /\ Contours(hist[k].val) = Contours(hist[k + 1].val)
            /\ \A j \in 1..Len(hist[k].val) : hist[k].val[j].closed
            /\ \A j \in 1..Len(hist[k + 1].val) : hist[k + 1].val[j].closed

\* Both calls have returned, and the union is an outline that neither
\* operand has.
UniteCommutesWitness ==
    \E k \in 1..(Len(hist) - 1) :
        /\ UnitePair(k)
        /\ \E j \in 1..Len(hist[k + 1].val) : Len(hist[k + 1].val[j].pts) >= 6

\* C5: every path that tracePaths has taken into its result is closed and
\* has more than eight segments or an area that is not zero, and the end of
\* a walk that has not come back to its start or other start leaves the
\* result as it is.
TracedPathsCoverArea ==
    [][/\ \A k \in 1..Len(fr'.out) :
              /\ pths'[fr'.out[k]].closed
              /\ \/ Len(pths'[fr'.out[k]].segs) > 8
                 \/ Area2(pths', segs', fr'.out[k]) # 0
       /\ (pc = "close" /\ ~fr.finished) => fr'.out = fr.out]_vars

\* tracePaths has taken a path into its result and has dropped the path of
\* a walk that did not come back.
TracedPathsWitness ==
    /\ pc = "trace"
    /\ fr.out # <<>>
    /\ \E p \in 3..Len(pths) :
           pths[p].segs # <<>> /\ ~pths[p].closed /\ ~Has(fr.out, p)

\* C5 as stated: every path of the result of tracePaths is closed and has
\* an area of at least GEOMETRIC_EPSILON.
TracedPathsAboveEpsilon ==
    \A k \in 1..Len(fr.out) :
        /\ pths[fr.out[k]].closed
        /\ Abs(Area2(pths, segs, fr.out[k])) >= 2 * GEOMETRIC_EPSILON

\* C6: every call with an open path, other than subtract or intersect on an
\* open receiver with a closed or compound argument, returns null or an
\* empty item.
OpenPathRejected ==
    \A k \in 1..Len(hist) :
        (/\ hist[k].op \in BooleanOps
         /\ \/ IsOpenPath(items, pths, hist[k].p1)
            \/ hist[k].p2 # 0 /\ IsOpenPath(items, pths, hist[k].p2)
         /\ ~(/\ IsOpenPath(items, pths, hist[k].p1)
              /\ hist[k].p2 # 0
              /\ ~IsOpenPath(items, pths, hist[k].p2)
              /\ hist[k].op \in {"subtract", "intersect"}))
        => (hist[k].res = 0 \/ hist[k].val = <<>>)

\* C7: no run of tracePaths ends with an exception.
TraceNeverThrows == ~threw /\ \A k \in 1..Len(hist) : ~hist[k].threw

Mutual(lc) ==
    \A a \in 1..Len(lc), b \in 1..Len(lc) : (lc[a].inter = b) <=> (lc[b].inter = a)

\* C9: a construction that is given nothing, or a location that has no
\* _intersection yet, keeps the intersection links mutual.
FreshLinksStayMutual ==
    [][(/\ Len(locs') = Len(locs) + 1
        /\ Mutual(locs)
        /\ \/ locs'[Len(locs')].inter = 0
           \/ locs[locs'[Len(locs')].inter].inter = 0)
       => Mutual(locs')]_vars

\* Locations have been constructed, some of them as partners, and the
\* links are mutual.
FreshLinksWitness ==
    /\ Len(locs) >= 3
    /\ Mutual(locs)
    /\ \E a \in 1..Len(locs) : locs[a].inter # 0
    /\ \E a \in 1..Len(locs) : locs[a].inter = 0

\* C9 as stated: after any sequence of constructions the links are mutual.
LinksMutual == Mutual(locs)

\* The locations reached through _next from location l, at most `fuel` of
\* them.
RECURSIVE NextChain(_, _, _)
NextChain(lc, l, fuel) ==
    IF l = 0 \/ fuel = 0 THEN <<>>
    ELSE <<l>> \o NextChain(lc, lc[l].next, fuel - 1)

----------------------------------------------------------------------------
(* Properties of divideLocations, tracePaths and the windings: C11 - C20 *)

\* The location has a segment of its path, and is at time 0 of the curve
\* that starts at that segment.
AtOwnSegment(ph, lc, l) ==
    /\ lc[l].seg # 0
    /\ Has(ph[lc[l].path].segs, lc[l].seg)
    /\ lc[l].curve = lc[l].seg
    /\ lc[l].tn = 0

TraceTerminates ==
    /\ [][(pc = "inner" /\ pc' = "inner") =>
              \E s \in 1..Len(segs) : ~segs[s].visited /\ segs'[s].visited]_vars
    /\ []((pc = "inner" /\ fr.inter # 0) =>
              Len(NextChain(locs, fr.inter, Len(locs) + 1)) <= Len(locs))
    /\ <>(pc = "idle")

\* tracePaths has returned paths after a walk over a segment whose
\* _intersection heads a chain of several locations.
TraceTerminatesWitness ==
    /\ pc = "idle"
    /\ ~threw
    /\ hist # <<>>
    /\ hist[Len(hist)].val # <<>>
    /\ \E s \in 1..Len(segs) :
           /\ segs[s].visited
           /\ segs[s].inter # 0
           /\ locs[segs[s].inter].next # 0

\* The distance of an emitted event from the point of the event before it.
EventDistance(e) == Abs(e.point[1] - e.lastPoint[1])

Admitted(op) ==
    CASE op = "unite" -> {1}
      [] op = "intersect" -> {2}
      [] op = "subtract" -> {1}
      [] op = "exclude" -> {1}
      [] OTHER -> {}

\* The segment exists, is not visited, and its winding is admitted or it
\* lies on the contour of a unite whose contour is not excluded.
AdmittedSegment ==
    /\ fr.seg # 0
    /\ ~segs[fr.seg].visited
    /\ \/ segs[fr.seg].winding \in Admitted(fr.op)
       \/ ~fr.excludeContour /\ fr.op = "unite" /\ segs[fr.seg].contour = 1

\* C14: isValid of a tracePaths with an operator returns true exactly for a
\* segment that exists, is not visited and either has a winding the table
\* admits or, when excludeContour is false and the operator is unite, has
\* _contour set; without an operator, as resolveCrossings calls tracePaths,
\* it returns true exactly for a segment that exists and is not visited.
IsValidByOperator ==
    pc = "returned" =>
        fr.res = IF fr.op = "resolve"
                 THEN fr.seg # 0 /\ ~segs[fr.seg].visited
                 ELSE AdmittedSegment

\* isValid has returned true for a segment of a unite that is on the
\* contour and has a winding the table does not admit.
IsValidWitness ==
    /\ pc = "returned"
    /\ fr.res
    /\ fr.op = "unite"
    /\ segs[fr.seg].winding = 2
    /\ segs[fr.seg].contour = 1

\* The statement without the case of no operator.
IsValidByTable ==
    pc = "returned" => fr.res = AdmittedSegment

\* 0 for no winding, 1 for an odd and 2 for an even number of windings.
Mapped(w) == IF w = 0 THEN 0 ELSE IF Abs(w) % 2 = 1 THEN 1 ELSE 2

\* The left and the right sum that line 1565 maps: the raw sums, or the
\* on-path winding for both when both raw sums are 0.
MappedSums == IF fr.w = <<0, 0>> THEN <<fr.onPath, fr.onPath>> ELSE fr.w

\* C15: getWinding maps a left or right sum of 0 to 0, an odd one to 1 and
\* an even one that is not 0 to 2, and returns the greater of the two mapped
\* values, one of 0, 1 and 2, as the winding.
WindingMapped ==
    pc = "returned" =>
        /\ fr.res.winding = Max(Mapped(MappedSums[1]), Mapped(MappedSums[2]))
        /\ fr.res.winding \in {0, 1, 2}

\* getWinding has returned 2 for the sums 3 and -4.
WindingMappedWitness ==
    /\ pc = "returned"
    /\ fr.w = <<3, -4>>
    /\ fr.res.winding = 2

\* C16: getWinding returns contour = true exactly when one of the mapped
\* left and right windings is 0 and the other is not.
ContourWhenOneSideEmpty ==
    pc = "returned" =>
        (fr.res.contour = 1
            <=> (Mapped(MappedSums[1]) = 0) # (Mapped(MappedSums[2]) = 0))

\* getWinding has returned contour = true for a point of a rectangle's
\* side, with a winding on one side only.
ContourWitness ==
    /\ pc = "returned"
    /\ fr.pt # <<>>
    /\ fr.res.contour = 1
    /\ fr.w[1] # 0
    /\ fr.w[2] = 0

\* The statement as it stands: contour = true exactly when the left and
\* the right winding differ.
ContourWhenSidesDiffer ==
    pc = "returned" =>
        (fr.res.contour = 1 <=> Mapped(MappedSums[1]) # Mapped(MappedSums[2]))

\* The ordinates of the ends of the piece and of the ray, and the ray
\* crosses the piece, which is not parallel to it.
PieceStart == Ordi(fr.v.a, fr.coord)
PieceEnd == Ordi(fr.v.b, fr.coord)
RayOrdinate == Ordi(fr.pt, fr.coord)
Crossed ==
    /\ PieceStart # PieceEnd
    /\ ~(PieceStart > RayOrdinate /\ PieceEnd > RayOrdinate)
    /\ ~(PieceStart < RayOrdinate /\ PieceEnd < RayOrdinate)

\* addWinding has added sign to the left, to the right or to both windings,
\* or, where it may, to neither.
Contributes(sign, always) ==
    /\ \A k \in 1..2 : fr.res.pw[k] - fr.acc.pw[k] \in {0, sign}
    /\ always => \E k \in 1..2 : fr.res.pw[k] - fr.acc.pw[k] = sign

ExtentMeetsBand ==
    /\ Min(Absc(fr.v.a, fr.coord), Absc(fr.v.b, fr.coord))
           <= Absc(fr.pt, fr.coord) + WINDING_EPSILON
    /\ Max(Absc(fr.v.a, fr.coord), Absc(fr.v.b, fr.coord))
           >= Absc(fr.pt, fr.coord) - WINDING_EPSILON

\* C18: for a piece on the ray, parallel to it, addWinding leaves the
\* windings and the previous piece as they are and raises the on-contour
\* flag exactly when the piece from its start to its end meets the band.
FlatPieceOnBand ==
    (pc = "returned" /\ PieceStart = PieceEnd /\ PieceStart = RayOrdinate) =>
        /\ fr.res.pw = fr.acc.pw
        /\ fr.res.vPrev = fr.acc.vPrev
        /\ fr.res.isOn <=> (fr.acc.isOn \/ ExtentMeetsBand)

\* The winding propagation of a boolean operation is over.
Propagated == pc \in {"trace", "inner", "close"} /\ fr.op \in BooleanOps

\* C19: after the propagation every collected segment has a _winding, and
\* a segment and its next segment, when that carries no intersection, so
\* that both belong to one chain, have the same _winding and _contour.
ChainsShareWinding ==
    Propagated =>
        \A k \in 1..Len(fr.segments) :
            /\ segs[fr.segments[k]].winding # -1
            /\ LET nx == getNext(pths, segs, fr.segments[k])
               IN  (nx # 0 /\ segs[nx].inter = 0) =>
                       /\ segs[nx].winding = segs[fr.segments[k]].winding
                       /\ segs[nx].contour = segs[fr.segments[k]].contour

\* The propagation is over for a path that has been divided into chains
\* of several segments with different windings.
ChainsShareWindingWitness ==
    /\ Propagated
    /\ pc = "trace"
    /\ \E k, m \in 1..Len(fr.segments) :
           /\ segs[fr.segments[k]].path = segs[fr.segments[m]].path
           /\ segs[fr.segments[k]].winding # segs[fr.segments[m]].winding
           /\ segs[fr.segments[k]].inter # 0
           /\ LET nx == getNext(pths, segs, fr.segments[k])
              IN  nx # 0 /\ segs[nx].inter = 0

\* The number of times the segment s has been assigned a winding.
TimesAssigned(s) == Cardinality({k \in 1..Len(fr.assigned) : fr.assigned[k] = s})

\* The first segment of the chain of s: the nearest segment at or before s
\* that carries an intersection, or the segment where the walk back ends.
RECURSIVE ChainHead(_, _)
ChainHead(s, fuel) ==
    IF segs[s].inter # 0 \/ fuel = 0 \/ getPrevious(pths, segs, s) = 0
    THEN s
    ELSE ChainHead(getPrevious(pths, segs, s), fuel - 1)

\* The number of locations of the list of crossings whose segment is h.
LocationsOn(h) ==
    Cardinality({k \in 1..Len(fr.crossings) : locs[fr.crossings[k]].seg = h})

\* C20: during the propagation of a computeBoolean call a segment is
\* assigned a winding once for every intersection location whose segment
\* is the first of its chain, and once when there is no such location.
AssignedOncePerLocation ==
    pc \in {"crossings", "segments", "trace"} =>
        \A s \in 1..Len(segs) :
            TimesAssigned(s) <= Max(1, LocationsOn(ChainHead(s, Len(segs))))

\* The propagation is over, and a segment that three locations share has
\* been assigned a winding three times.
AssignedWitness ==
    /\ pc = "trace"
    /\ \E s \in 1..Len(segs) : LocationsOn(s) = 3 /\ TimesAssigned(s) = 3

\* The statement as it stands: at most two assignments to a segment.
AssignedAtMostTwice ==
    pc \in {"crossings", "segments", "trace"} =>
        \A s \in 1..Len(segs) : TimesAssigned(s) <= 2

----------------------------------------------------------------------------
(* Properties of tracePaths, the orientation and the Tool: C21 - C30 *)

\* The number of iterations of the inner loop that began with s as `seg`.
TimesCurrent(s) == Cardinality({k \in 1..Len(fr.current) : fr.current[k] = s})

\* C21: during a run of tracePaths a segment is the current segment at
\* the head of an iteration of the inner loop at most twice.
CurrentAtMostTwice ==
    \A s \in 1..Len(segs) : TimesCurrent(s) <= 2

\* A segment has been the current segment twice.
CurrentTwiceWitness ==
    /\ pc \in {"trace", "close"}
    /\ \E s \in 1..Len(segs) : TimesCurrent(s) = 2

\* The number of copies of the segment s that the run has added to paths.
TimesCopied(s) == Cardinality({k \in 1..Len(fr.copied) : fr.copied[k] = s})

\* The control is inside tracePaths.
Tracing == pc \in {"trace", "inner", "close"}

\* C22: during a run of tracePaths a segment is copied into a path at
\* most once, a copied segment has its _visited flag set, the walk copies
\* a segment only while the flag is unset, and no step clears the flag.
CopiedAtMostOnce ==
    /\ [](\A s \in 1..Len(segs) :
            /\ TimesCopied(s) <= 1
            /\ TimesCopied(s) = 1 => segs[s].visited)
    /\ [][Tracing /\ Tracing'
          => \A s \in 1..Len(segs) :
               /\ segs[s].visited => segs'[s].visited
               /\ (pc = "inner" /\ Len(fr'.copied) > Len(fr.copied)
                   /\ fr'.copied[Len(fr'.copied)] = s) => ~segs[s].visited]_vars

\* A run has copied all the segments of a path crossed by another path.
CopiedWitness ==
    /\ pc = "trace"
    /\ \E p \in 1..Len(pths) :
         /\ Len(pths[p].segs) > 0
         /\ \A k \in 1..Len(pths[p].segs) : TimesCopied(pths[p].segs[k]) = 1
         /\ \E k \in 1..Len(pths[p].segs) : segs[pths[p].segs[k]].inter # 0

\* The segment that the loop of tracePaths is about to start from.
Seed == fr.segments[fr.i]

\* Lines 1694-1700: the seed is unvisited, all the intersections of its path
\* are overlaps and the path of its partner has an equal list of segments.
MeetsOverlap ==
    /\ pc = "trace" /\ fr.i <= Len(fr.segments)
    /\ fr.op \in BooleanOps
    /\ ~segs[Seed].visited
    /\ pths[segs[Seed].path].overlapsOnly
    /\ segs[Seed].inter # 0
    /\ PathPts(pths, segs, segs[Seed].path)
         = PathPts(pths, segs, segs[locs[segs[Seed].inter].seg].path)

\* The path of the seed and the path of its partner.
SeedPaths == {segs[Seed].path, segs[locs[segs[Seed].inter].seg].path}

\* All the segments of the path p are visited.
AllVisited(sg, ph, p) == \A k \in 1..Len(ph[p].segs) : sg[ph[p].segs[k]].visited

\* The step adds one path to the output, with the points of the path p.
AddsCloneOf(p) ==
    /\ Len(fr'.out) = Len(fr.out) + 1
    /\ PathPts(pths', segs', fr'.out[Len(fr'.out)]) = PathPts(pths, segs, p)

RECURSIVE NextLocations(_, _)
NextLocations(l, fuel) ==
    IF l = 0 \/ fuel = 0 THEN <<>>
    ELSE <<l>> \o NextLocations(locs[l].next, fuel - 1)

\* The first element of the sequence c that satisfies Test, or 0.
FirstOf(c, Test(_)) ==
    IF \E k \in 1..Len(c) : Test(c[k])
    THEN c[CHOOSE k \in 1..Len(c) : Test(c[k]) /\ \A j \in 1..(k - 1) : ~Test(c[j])]
    ELSE 0

\* The segment of the location l is the start or followed by the start, or
\* it and its successor are unvisited and, for a boolean operator, it is
\* valid and its successor or the segment across the successor's
\* intersection is valid.
Qualifies(l) ==
    LET seg       == locs[l].seg
        nextSeg   == getNext(pths, segs, seg)
        nextInter == IF nextSeg # 0 THEN segs[nextSeg].inter ELSE 0
    IN  \/ isStart(seg, fr.start, fr.otherStart)
        \/ isStart(nextSeg, fr.start, fr.otherStart)
        \/ /\ ~segs[seg].visited /\ nextSeg # 0 /\ ~segs[nextSeg].visited
           /\ \/ fr.op = "resolve"
              \/ /\ isValid(segs, seg, fr.op, FALSE)
                 /\ \/ isValid(segs, nextSeg, fr.op, FALSE)
                    \/ /\ nextInter # 0
                       /\ isValid(segs, locs[nextInter].seg, fr.op, FALSE)

\* Qualifies, for a location whose segment is not the current segment.
QualifiesBesideCurrent(l) == locs[l].seg # fr.seg /\ Qualifies(l)

\* The call findBestIntersection(inter, seg) of line 1726 and its result.
ChoosesBest(Result(_)) ==
    (pc = "inner" /\ fr.inter # 0)
    => LET Returns(best) == ~best.threw => Result(best.inter)
       IN  Returns(findBestIntersection(pths, segs, locs, fr.inter, fr.seg,
                                        fr.start, fr.otherStart, fr.op))

SortedChildren == SortByBounds(snap, segs, items[1].children)

\* The number of the larger paths that contain the interior point of the
\* k-th largest path.
LargerContaining(k) ==
    LET point == getInteriorPoint(snap, segs, SortedChildren[k], items[1].fillRule)
    IN  Cardinality({j \in 1..(k - 1) :
            ~point.nan /\ pathContains(snap, segs, SortedChildren[j],
                                       items[1].fillRule, point.pt)})

\* The largest path has kept its orientation, and every other path is
\* clockwise exactly when the parity of the larger paths around it agrees
\* with the orientation of the largest path.
AlternatesFromLargest ==
    /\ isClockwise(pths, segs, SortedChildren[1])
         = isClockwise(snap, segs, SortedChildren[1])
    /\ \A k \in 2..Len(SortedChildren) :
         isClockwise(pths, segs, SortedChildren[k])
           = ((LargerContaining(k) % 2 = 0)
                = isClockwise(snap, segs, SortedChildren[1]))

\* C25: under the even-odd rule either fixer of the orientation, the loop of
\* resolveCrossings or CompoundPath#reorient, leaves the largest path as it
\* is and makes every other path clockwise exactly when (the number of
\* larger paths that contain its interior point is even) equals (the
\* largest path is clockwise).
EvenOddAlternates ==
    (pc = "returned" /\ items[1].fillRule = "evenodd"
     /\ fr.op \in {"resolveCrossings", "reorient"})
    => AlternatesFromLargest

\* The same for the loop of resolveCrossings alone.
EvenOddAlternatesResolved ==
    (pc = "returned" /\ items[1].fillRule = "evenodd"
     /\ fr.op = "resolveCrossings")
    => AlternatesFromLargest /\ fr.out = SortedChildren

\* The loop of resolveCrossings has turned a path that lies in two others.
EvenOddWitness ==
    /\ pc = "returned" /\ items[1].fillRule = "evenodd"
    /\ fr.op = "resolveCrossings"
    /\ \E k \in 2..Len(SortedChildren) :
         /\ LargerContaining(k) = 2
         /\ isClockwise(pths, segs, SortedChildren[k])
              # isClockwise(snap, segs, SortedChildren[k])

\* The larger paths that contain the interior point of the k-th largest
\* path, as indices of SortedChildren.
Containers(k) ==
    LET point == getInteriorPoint(snap, segs, SortedChildren[k], items[1].fillRule)
    IN  {j \in 1..(k - 1) :
            ~point.nan /\ pathContains(snap, segs, SortedChildren[j],
                                       items[1].fillRule, point.pt)}

\* The sign of the orientation that the path had: 1 if clockwise, else -1.
OwnWinding(k) == IF isClockwise(snap, segs, SortedChildren[k]) THEN 1 ELSE -1

\* The winding accumulated at the k-th largest path: its own sign plus the
\* accumulated winding of the nearest path that contains it.
RECURSIVE Accumulated(_)
Accumulated(k) ==
    IF Containers(k) = {} THEN OwnWinding(k)
    ELSE OwnWinding(k) + Accumulated(MaxOf(Containers(k)))

\* The path is left out: the winding accumulated at it and the one
\* accumulated at its nearest container are both not zero.
LeftOut(k) ==
    /\ Containers(k) # {}
    /\ Accumulated(k) # 0
    /\ Accumulated(MaxOf(Containers(k))) # 0

\* The containers of the path that are kept.
KeptContainers(k) == {j \in Containers(k) : ~LeftOut(j)}

\* C26: under the non-zero rule the loop of resolveCrossings leaves a path
\* out exactly when the winding accumulated at it and the winding
\* accumulated at its nearest container are both not zero; a path that stays
\* gets the orientation opposite to that of its nearest kept container, or
\* that of the largest path when no kept path contains it.
NonZeroLeavesOut ==
    (pc = "returned" /\ items[1].fillRule = "nonzero"
     /\ fr.op = "resolveCrossings")
    => /\ fr.out = SelectSeq(SortedChildren,
                       LAMBDA p : ~LeftOut(IndexOf(SortedChildren, p)))
       /\ \A k \in 2..Len(SortedChildren) :
            ~LeftOut(k) =>
              isClockwise(pths, segs, SortedChildren[k])
                = IF KeptContainers(k) # {}
                  THEN ~isClockwise(pths, segs,
                            SortedChildren[MaxOf(KeptContainers(k))])
                  ELSE isClockwise(pths, segs, SortedChildren[1])

\* A path has stayed whose nearest container was left out and which lies in
\* a kept path further out.
NonZeroWitness ==
    /\ pc = "returned" /\ items[1].fillRule = "nonzero"
    /\ fr.op = "resolveCrossings"
    /\ \E k \in 2..Len(SortedChildren) :
         /\ ~LeftOut(k)
         /\ Containers(k) # {} /\ LeftOut(MaxOf(Containers(k)))
         /\ KeptContainers(k) # {}
         /\ Has(fr.out, SortedChildren[k])

\* The abscissas at which the ray through the centre of path 1 meets the
\* curves of the path, smallest first.
RayIntercepts ==
    SortedInts(Intercepts(getCurves(pths, segs, 1), 1, BoundsCenter(pths, segs, 1)[2]))

\* The path does not contain the centre of its bounds.
CenterOutside ==
    ~pathContains(pths, segs, 1, items[1].fillRule, BoundsCenter(pths, segs, 1))

\* A call of getInteriorPoint has returned for a path that does not contain
\* the centre of its bounds.
ReturnedOutside(op) ==
    /\ pc = "returned" /\ Len(hist) = 1 /\ hist[1].op = op
    /\ CenterOutside

\* The point of the claim for the intercepts ics: the centre if there are
\* fewer than two, else the point half way between the two smallest.
CenterOrMidpoint(ics) ==
    IF Len(ics) < 2 THEN Interior(BoundsCenter(pths, segs, 1))
    ELSE Interior(<<(ics[1] + ics[2]) \div 2, BoundsCenter(pths, segs, 1)[2]>>)

\* The getInteriorPoint of lines 2073-2126 returns the point of the claim.
InteriorOrCenter ==
    ReturnedOutside("getInteriorPoint") => hist[1].res = CenterOrMidpoint(RayIntercepts)

\* It has done so for a ray that meets no curve, and for one that meets
\* more than two.
InteriorNoIntercept ==
    ReturnedOutside("getInteriorPoint") /\ Len(RayIntercepts) = 0

InteriorManyIntercepts ==
    ReturnedOutside("getInteriorPoint") /\ Len(RayIntercepts) > 2

\* The getInteriorPoint of lines 1018-1045 returns the point of the claim for
\* the intercepts with its monotone curves.
MonoInteriorOrCenter ==
    ReturnedOutside("getInteriorPointMono")
    => hist[1].res
         = CenterOrMidpoint(SortedInts(Intercepts(MonoCurves(pths, segs, 1), 1,
                                                  BoundsCenter(pths, segs, 1)[2])))

\* C27: when the path does not contain the centre of its bounds, either
\* getInteriorPoint (lines 2073-2126, lines 1018-1045) returns the centre if
\* the ray through the centre has fewer than two intercepts, and else the
\* point at the height of the centre half way between the two smallest
\* intercepts.
InteriorPointOrCenter == InteriorOrCenter /\ MonoInteriorOrCenter

\* Lines 1018-1045 return a point that the path contains or the centre.
MonoInteriorInside ==
    ReturnedOutside("getInteriorPointMono")
    => /\ ~hist[1].res.nan
       /\ \/ hist[1].res.pt = BoundsCenter(pths, segs, 1)
          \/ pathContains(pths, segs, 1, items[1].fillRule, hist[1].res.pt)

\* The coefficients of the derivative of the ordinate of the curve in snap,
\* divided by 3.
DerivativeA == (3 * (snap[4] - snap[6])) - snap[2] + snap[8]

DerivativeB == (2 * (snap[2] + snap[6])) - (4 * snap[4])

DerivativeC == snap[4] - snap[2]

\* The number of times between 0 and 1 at which the derivative is zero: by
\* its signs at 0 and 1 and at its vertex instead of by its roots.  A
\* derivative that is zero everywhere has none that could be counted.
DerivativeRoots ==
    LET a  == DerivativeA
        b  == DerivativeB
        c  == DerivativeC
        f0 == c
        f1 == a + b + c
        D  == (b * b) - (4 * a * c)
        \* the vertex -b / (2 * a) lies between 0 and 1
        inside == IF a > 0 THEN -b > 0 /\ -b < 2 * a
                  ELSE b > 0 /\ b < -(2 * a)
    IN  IF a = 0 /\ b = 0 THEN 0
        ELSE IF (f0 > 0 /\ f1 < 0) \/ (f0 < 0 /\ f1 > 0) THEN 1
        ELSE IF a = 0 THEN 0
        ELSE IF f0 = 0 /\ f1 = 0 THEN 0
        ELSE IF f0 = 0
        THEN (IF (a > 0 /\ -b > 0 /\ -b < a) \/ (a < 0 /\ b > 0 /\ b < -a)
              THEN 1 ELSE 0)
        ELSE IF f1 = 0
        THEN (IF (a > 0 /\ c > 0 /\ c < a) \/ (a < 0 /\ c < 0 /\ c > a)
              THEN 1 ELSE 0)
        ELSE IF D < 0 \/ ~inside THEN 0
        ELSE IF (a > 0) # (f0 > 0) THEN 0
        ELSE IF D = 0 THEN 1 ELSE 2

\* The number of the extrema of the ordinate between 0 and 1: the times at
\* which the derivative changes its sign.
Extrema ==
    IF (DerivativeB * DerivativeB) - (4 * DerivativeA * DerivativeC) = 0
       /\ DerivativeA # 0
    THEN 0
    ELSE DerivativeRoots

\* handleCurve has returned for the curve in snap.
Handled == pc = "returned" /\ fr.op = "" /\ Len(snap) = 8

\* C28 (amended): handleCurve inserts no curve for a curve without length,
\* one for a straight curve and for a curve whose derivative in y has no
\* root between 0 and 1, two for one root (a double root counts once) or a
\* derivative that is zero everywhere, and three for two roots.
PiecesByRoots ==
    Handled
    => fr.res = IF IsZeroLength(snap) THEN 0
                ELSE IF IsStraight(snap) THEN 1
                ELSE IF DerivativeA = 0 /\ DerivativeB = 0 /\ DerivativeC = 0 THEN 2
                ELSE 1 + DerivativeRoots

\* A curve has been split in three.
PiecesWitness == Handled /\ fr.res = 3 /\ DerivativeRoots = 2

\* C28 as stated: between one and three pieces, one for a straight curve or
\* a curve without extremum, two for one extremum, three for two.
PiecesByExtrema ==
    Handled
    => /\ fr.res >= 1 /\ fr.res <= 3
       /\ fr.res = IF IsStraight(snap) THEN 1 ELSE 1 + Extrema

\* C29: after any calls of linkIntersections on locations that had no links,
\* x._next === y if and only if y._previous === x, for all locations x and y.
LinksConsistent ==
    \A x \in 1..Len(locs), y \in 1..Len(locs) :
        (locs[x].next = y) <=> (locs[y].prev = x)

\* The calls have joined the chain of 3 and 4 and the chain of 1 and 2: the
\* last call has walked back from 2 to 1 and linked 4 to 1.
LinksConsistentWitness ==
    /\ pc = "link"
    /\ locs[3].prev = 0
    /\ NextChain(locs, 3, Len(locs) + 1) = <<3, 4, 1, 2>>
    /\ locs[1].prev = 4 /\ locs[2].prev = 1 /\ locs[4].prev = 3

LoopEndsWithoutNegative ==
    (pc = "loop" /\ (tool.maxDistance = Null \/ tool.maxDistance[1] >= 0))
        ~> (pc = "returned")

\* With a maxDistance that is not negative the tool has emitted several
\* events for one event of the mouse and the loop has ended.
LoopEndsWitness ==
    /\ pc = "returned"
    /\ tool.maxDistance # Null /\ tool.maxDistance[1] > 0
    /\ Len(tool.emitted) >= 3

\* With a negative maxDistance the point of the tool moves away from the
\* point of the mouse and emits event after event.
LoopRunsAway ==
    /\ pc = "loop"
    /\ tool.maxDistance # Null /\ tool.maxDistance[1] < 0
    /\ Len(tool.emitted) >= 3
    /\ Abs(tool.point[1] - fr.event.point) > MaxPoint

\* With a negative maxDistance every iteration that starts away from the
\* point of the mouse, except the first one of a first move, is followed by
\* another one that starts farther away.
Away == Abs(tool.point[1] - fr.event.point)

NegativeRunsAway ==
    [][(/\ pc = "loop"
        /\ tool.maxDistance # Null /\ tool.maxDistance[1] < 0
        /\ tool.point # Null /\ Away > 0
        /\ fr.event.drag \/ ~tool.firstMove)
       => (pc' = "loop" /\ Away' > Away)]_vars

====
